---- MODULE Spec2Model ----
(***************************************************************************)
(* State-machine model of the pyriser file readers (DasFile, OutputFile,   *)
(* Shear7File, DPX).  Every reader walks an ordered list of lines and      *)
(* keeps "current section" pointers; each loop iteration of a reader is    *)
(* one action.  A text line is modelled as a sequence of tokens: the       *)
(* first token of a marker line is its marker character(s), so line[0]     *)
(* of the source is line[1] here.  Python dicts are functions; the empty   *)
(* dict and the empty list are both the empty sequence.                    *)
(***************************************************************************)
EXTENDS Integers, Sequences, FiniteSets, TLC

VARIABLES
    \* DasFile
    data, das_i, das_pc, dollar_section, star_section,
    models, no_models, load_cases, no_load_cases, das_data,
    \* OutputFile
    out_file, solver, out_i, out_pc, key, out_data, converged, restart,
    \* Shear7File
    s7_file, s7_i, s7_pc, section, s7_data, number_current_points, b3_i,
    current_profile, current_text, max_current, min_current, mean_current,
    \* DasFile.process_element_sets
    es_pc, es_i, set, element_sets,
    \* DasFile.process_hydro_sets
    h_pc, h_model, h_i, hydro_sets, df_hydro_sets, option, diameter, hydro_type,
    set_name,
    \* DasFile.process_soil
    soil_pc, soil_idx, depth, p_y_curves,
    \* DPX.parse_dpx
    dpx_data, dpx_pc, dpx_i, name, component_type, menu, current_row, components,
    \* DasFile.__init__ and the fields its steps set
    ctor_pc, units, length_unit, analysis_type, water_depth, database_start,
    soil_sum, lc_i, load_case_summary, errors,
    \* TabFile
    contents, tab_pc, tab_idx, table, series, series_count, x_axis_label,
    y_axis_label, x_units, y_units, tab_file_data, riser_length, tab_calls,
    tab_result,
    \* a second construction on the same file
    parse_no, first_record,
    \* CommonMds
    mds_data, mds_pc, mds_i, no_of_modes, no_of_nodes, modes,
    \* DasFile.read_das_file
    raw_lines, read_i, read_pc,
    \* OutputFile.process_environment_data and OutputFile.process_offset
    off_pc, off_i, out_water_depth, offsets, offset_mag, offset_perc_wd,
    \* what DasFile.handle_errors prints
    reported,
    \* DPX.assemble_wave_types and DPX.assemble_jonswap_wave_data
    wave_pc, wave_i, waves, wave_types, jonswap_data,
    \* Shear7File.process_block4
    block4, b4_pc, number_of_sn_curves, global_scf, line_idx, curve_idx, sn_id, no_segments, point_i, sn_curves, sn_curves_text, reads,
    \* DasFile.gen_load_case_summary: the loop over *INTERNAL FLUID
    fluid_pc, lc_units, fluid_lines, fluid_index, fluid_count, fluid_summary,
    \* Shear7OutputFile
    s7o_data, s7o_pc, s7o_idx, s7o_i, results_start_idx, power_calc_start_idx, initial_power_calcs, no_possible_excitated_modes,
    \* FatigueOutputFile
    fat_data, fat_pc, fat_idx, fat_section, fatigue_lives

dasVars == <<data, das_i, das_pc, dollar_section, star_section,
             models, no_models, load_cases, no_load_cases, das_data>>

outVars == <<out_file, solver, out_i, out_pc, key, out_data, converged, restart>>

s7Vars == <<s7_file, s7_i, s7_pc, section, s7_data, number_current_points, b3_i,
            current_profile, current_text, max_current, min_current, mean_current>>

elemVars == <<es_pc, es_i, set, element_sets>>

hydroVars == <<h_pc, h_model, h_i, hydro_sets, df_hydro_sets, option, diameter,
              hydro_type, set_name>>

soilVars == <<soil_pc, soil_idx, depth, p_y_curves>>

dpxVars == <<dpx_data, dpx_pc, dpx_i, name, component_type, menu, current_row,
            components>>

ctorVars == <<ctor_pc, units, length_unit, analysis_type, water_depth,
             database_start, soil_sum, lc_i, load_case_summary, errors>>

tabVars == <<contents, tab_pc, tab_idx, table, series, series_count, x_axis_label,
            y_axis_label, x_units, y_units, tab_file_data, riser_length, tab_calls,
            tab_result>>

twiceVars == <<parse_no, first_record>>

mdsVars == <<mds_data, mds_pc, mds_i, no_of_modes, no_of_nodes, modes>>

readVars == <<raw_lines, read_i, read_pc>>

offVars == <<off_pc, off_i, out_water_depth, offsets, offset_mag, offset_perc_wd>>

reportVars == <<reported>>

waveVars == <<wave_pc, wave_i, waves, wave_types, jonswap_data>>

b4Vars == <<block4, b4_pc, number_of_sn_curves, global_scf, line_idx, curve_idx, sn_id, no_segments, point_i, sn_curves, sn_curves_text, reads>>

fluidVars == <<fluid_pc, lc_units, fluid_lines, fluid_index, fluid_count, fluid_summary>>

s7oVars == <<s7o_data, s7o_pc, s7o_idx, s7o_i, results_start_idx, power_calc_start_idx, initial_power_calcs, no_possible_excitated_modes>>

fatVars == <<fat_data, fat_pc, fat_idx, fat_section, fatigue_lives>>

vars == <<dasVars, outVars, s7Vars, elemVars, hydroVars, soilVars, dpxVars,
          ctorVars, tabVars, twiceVars, mdsVars, readVars, offVars,
          reportVars,
          waveVars,
          b4Vars,
          fluidVars,
          s7oVars,
          fatVars>>

(***************************************************************************)
(* Each reader object is independent of the others: while one reader runs, *)
(* the objects of the other readers do not exist ("idle") and stay so.     *)
(***************************************************************************)
DasIdle ==
    /\ data = <<>> /\ das_i = 0 /\ das_pc = "idle"
    /\ dollar_section = <<>> /\ star_section = <<>>
    /\ models = <<>> /\ no_models = 0
    /\ load_cases = <<>> /\ no_load_cases = 0 /\ das_data = <<>>

OutIdle ==
    /\ out_file = <<>> /\ solver = "" /\ out_i = 0 /\ out_pc = "idle"
    /\ key = <<>> /\ out_data = <<>> /\ converged = "" /\ restart = ""

S7Idle ==
    /\ s7_file = <<>> /\ s7_i = 0 /\ s7_pc = "idle" /\ section = <<>>
    /\ s7_data = <<>> /\ number_current_points = 0 /\ b3_i = 0
    /\ current_profile = <<>> /\ current_text = <<>>
    /\ max_current = 0 /\ min_current = 0 /\ mean_current = 0

ElemIdle ==
    /\ es_pc = "idle" /\ es_i = 0 /\ set = <<>> /\ element_sets = <<>>

HydroIdle ==
    /\ h_pc = "idle" /\ h_model = 0 /\ h_i = 0 /\ hydro_sets = <<>>
    /\ df_hydro_sets = <<>> /\ option = <<>> /\ diameter = <<>>
    /\ hydro_type = <<>> /\ set_name = <<>>

SoilIdle ==
    soil_pc = "idle" /\ soil_idx = 0 /\ depth = <<>> /\ p_y_curves = <<>>

DpxIdle ==
    /\ dpx_data = <<>> /\ dpx_pc = "idle" /\ dpx_i = 0 /\ name = <<>>
    /\ component_type = <<>> /\ menu = <<>> /\ current_row = <<>>
    /\ components = <<>>

CtorIdle ==
    /\ ctor_pc = "idle" /\ units = <<>> /\ length_unit = <<>>
    /\ analysis_type = <<>> /\ water_depth = <<>> /\ database_start = <<>>
    /\ soil_sum = 0 /\ lc_i = 0 /\ load_case_summary = <<>> /\ errors = <<>>

TabIdle ==
    /\ contents = <<>> /\ tab_pc = "idle" /\ tab_idx = 0 /\ table = <<>>
    /\ series = <<>> /\ series_count = <<>> /\ x_axis_label = <<>>
    /\ y_axis_label = <<>> /\ x_units = <<>> /\ y_units = <<>>
    /\ tab_file_data = <<>> /\ riser_length = <<>> /\ tab_calls = 0
    /\ tab_result = <<>>

\* the first construction is under way and nothing is remembered of it
TwiceIdle == parse_no = 0 /\ first_record = <<>>

MdsIdle ==
    /\ mds_data = <<>> /\ mds_pc = "idle" /\ mds_i = 0 /\ no_of_modes = <<>>
    /\ no_of_nodes = <<>> /\ modes = <<>>

ReadIdle == raw_lines = <<>> /\ read_i = 0 /\ read_pc = "idle"

OffIdle ==
    /\ off_pc = "idle" /\ off_i = 0 /\ out_water_depth = <<>> /\ offsets = <<>>
    /\ offset_mag = <<>> /\ offset_perc_wd = <<>>

ReportIdle == reported = <<>>

WaveIdle == wave_pc = "idle" /\ wave_i = 0 /\ waves = <<>> /\ wave_types = <<>> /\ jonswap_data = <<>>

B4Idle == b4_pc = "idle" /\ block4 = <<>> /\ number_of_sn_curves = 0 /\ global_scf = <<>> /\ line_idx = 0 /\ curve_idx = 0 /\ sn_id = 0 /\ no_segments = 0 /\ point_i = 0 /\ sn_curves = <<>> /\ sn_curves_text = <<>> /\ reads = <<>>

FluidIdle == fluid_pc = "idle" /\ lc_units = <<>> /\ fluid_lines = <<>> /\ fluid_index = 0 /\ fluid_count = 0 /\ fluid_summary = <<>>

S7OutIdle == s7o_pc = "idle" /\ s7o_data = <<>> /\ s7o_idx = 0 /\ s7o_i = <<>> /\ results_start_idx = <<>> /\ power_calc_start_idx = <<>> /\ initial_power_calcs = <<>> /\ no_possible_excitated_modes = <<>>

FatIdle == fat_pc = "idle" /\ fat_data = <<>> /\ fat_idx = 0 /\ fat_section = <<>> /\ fatigue_lives = <<>>

OthersIdle(reader) ==
    /\ IF reader \in {"das", "elem", "hydro", "soil", "ctor"} THEN TRUE ELSE DasIdle
    /\ IF reader \in {"out", "off"} THEN TRUE ELSE OutIdle
    /\ IF reader = "s7" THEN TRUE ELSE S7Idle
    /\ IF reader = "elem" THEN TRUE ELSE ElemIdle
    /\ IF reader = "hydro" THEN TRUE ELSE HydroIdle
    /\ IF reader = "soil" THEN TRUE ELSE SoilIdle
    /\ IF reader \in {"dpx", "wave"} THEN TRUE ELSE DpxIdle
    /\ IF reader = "ctor" THEN TRUE ELSE CtorIdle
    /\ IF reader = "tab" THEN TRUE ELSE TabIdle
    /\ TwiceIdle
    /\ IF reader = "mds" THEN TRUE ELSE MdsIdle
    /\ IF reader = "read" THEN TRUE ELSE ReadIdle
    /\ IF reader = "off" THEN TRUE ELSE OffIdle
    /\ IF reader = "report" THEN TRUE ELSE ReportIdle
    /\ IF reader = "wave" THEN TRUE ELSE WaveIdle
    /\ IF reader = "b4" THEN TRUE ELSE B4Idle
    /\ IF reader = "fluid" THEN TRUE ELSE FluidIdle
    /\ IF reader = "s7o" THEN TRUE ELSE S7OutIdle
    /\ IF reader = "fat" THEN TRUE ELSE FatIdle

\* Every reader outside `readers` keeps its state
AllUnchangedBut(readers) ==
    /\ IF "das" \in readers THEN TRUE ELSE UNCHANGED dasVars
    /\ IF "out" \in readers THEN TRUE ELSE UNCHANGED outVars
    /\ IF "s7" \in readers THEN TRUE ELSE UNCHANGED s7Vars
    /\ IF "elem" \in readers THEN TRUE ELSE UNCHANGED elemVars
    /\ IF "hydro" \in readers THEN TRUE ELSE UNCHANGED hydroVars
    /\ IF "soil" \in readers THEN TRUE ELSE UNCHANGED soilVars
    /\ IF "dpx" \in readers THEN TRUE ELSE UNCHANGED dpxVars
    /\ IF "ctor" \in readers THEN TRUE ELSE UNCHANGED ctorVars
    /\ IF "tab" \in readers THEN TRUE ELSE UNCHANGED tabVars
    /\ IF "twice" \in readers THEN TRUE ELSE UNCHANGED twiceVars
    /\ IF "mds" \in readers THEN TRUE ELSE UNCHANGED mdsVars
    /\ IF "read" \in readers THEN TRUE ELSE UNCHANGED readVars
    /\ IF "off" \in readers THEN TRUE ELSE UNCHANGED offVars
    /\ IF "report" \in readers THEN TRUE ELSE UNCHANGED reportVars
    /\ IF "wave" \in readers THEN TRUE ELSE UNCHANGED waveVars
    /\ IF "b4" \in readers THEN TRUE ELSE UNCHANGED b4Vars
    /\ IF "fluid" \in readers THEN TRUE ELSE UNCHANGED fluidVars
    /\ IF "s7o" \in readers THEN TRUE ELSE UNCHANGED s7oVars
    /\ IF "fat" \in readers THEN TRUE ELSE UNCHANGED fatVars

OthersUnchanged(reader) == AllUnchangedBut({reader})

(***************************************************************************)
(* Dict and list helpers                                                   *)
(***************************************************************************)
EmptyDict == <<>>

EmptyList == <<>>

\* d[k] = v
Put(d, k, v) == [x \in (DOMAIN d) \cup {k} |-> IF x = k THEN v ELSE d[x]]

\* All sequences over S of length 0..n
SeqsUpTo(S, n) == UNION {[1..k -> S] : k \in 0..n}

(***************************************************************************)
(* DasFile.parse_das_file_data                                             *)
(***************************************************************************)
MaxDasLines == 4

HEADERS == <<"headers">>

MODEL == <<"$", "MODEL">>

LOAD_CASE == <<"$", "LOAD CASE">>

\* The lines a das file may hold after read_das_file: never empty, stripped.
DasLines == {MODEL, LOAD_CASE, <<"$", "ANALYSIS">>,
             <<"*", "NODE">>, <<"*", "OCEAN">>, <<"1,2">>, <<"3,4">>}

\* setup_variables followed by read_das_file: self.data holds the file's lines
DasInit ==
    /\ data \in SeqsUpTo(DasLines, MaxDasLines)
    /\ das_i = 1
    /\ das_pc = "parse"
    /\ dollar_section = HEADERS
    /\ star_section = HEADERS
    /\ models = EmptyDict
    /\ no_models = 0
    /\ load_cases = EmptyDict
    /\ no_load_cases = 0
    /\ das_data = Put(EmptyDict, HEADERS, Put(EmptyDict, HEADERS, EmptyList))
    /\ OthersIdle("das")

\* if dollar_section == '$MODEL': self.no_models += 1; self.models[self.no_models] = {}
ModelsAfterDollar_KeyBeforeIncrement(ms, n, line) ==
    IF line = MODEL THEN Put(ms, n, EmptyDict) ELSE ms

ModelsAfterDollar(ms, n, line) ==
    IF line = MODEL THEN Put(ms, n + 1, EmptyDict) ELSE ms

\* if dollar_section == '$LOAD CASE': ... self.load_cases[self.no_load_cases] = {}
LoadCasesAfterDollar(lcs, n, line) ==
    IF line = LOAD_CASE THEN Put(lcs, n + 1, EmptyDict) ELSE lcs

\* else: self.das_data[dollar_section] = {}   (the else of the LOAD CASE test)
DasDataAfterDollar(dd, line) ==
    IF line = LOAD_CASE THEN dd ELSE Put(dd, line, EmptyDict)

\* <container>[star_section] = []
SectionOpened(sections, star) == Put(sections, star, EmptyList)

\* <container>[star_section].append(line)
SectionAppended_Prepend(sections, star, line) ==
    Put(sections, star, <<line>> \o sections[star])

SectionAppended(sections, star, line) ==
    Put(sections, star, Append(sections[star], line))

\* The dict of star sections the current dollar section selects
CurrentSections ==
    IF dollar_section = MODEL THEN models[no_models]
    ELSE IF dollar_section = LOAD_CASE THEN load_cases[no_load_cases]
    ELSE das_data[dollar_section]

\* Store `sections` back where CurrentSections was read from
StoreSections(sections) ==
    IF dollar_section = MODEL
    THEN /\ models' = Put(models, no_models, sections)
         /\ UNCHANGED <<load_cases, das_data>>
    ELSE IF dollar_section = LOAD_CASE
    THEN /\ load_cases' = Put(load_cases, no_load_cases, sections)
         /\ UNCHANGED <<models, das_data>>
    ELSE /\ das_data' = Put(das_data, dollar_section, sections)
         /\ UNCHANGED <<models, load_cases>>

\* line[0] == '$'
ParseDollarLine ==
    /\ das_pc = "parse"
    /\ das_i <= Len(data)
    /\ data[das_i][1] = "$"
    /\ dollar_section' = data[das_i]
    /\ no_models' = IF data[das_i] = MODEL THEN no_models + 1 ELSE no_models
    /\ models' = ModelsAfterDollar(models, no_models, data[das_i])
    /\ no_load_cases' = IF data[das_i] = LOAD_CASE THEN no_load_cases + 1
                        ELSE no_load_cases
    /\ load_cases' = LoadCasesAfterDollar(load_cases, no_load_cases, data[das_i])
    /\ das_data' = DasDataAfterDollar(das_data, data[das_i])
    /\ das_i' = das_i + 1
    /\ UNCHANGED <<data, das_pc, star_section>>
    /\ OthersUnchanged("das")

\* elif line[0] == '*'
ParseStarLine ==
    /\ das_pc = "parse"
    /\ das_i <= Len(data)
    /\ data[das_i][1] = "*"
    /\ star_section' = data[das_i]
    /\ StoreSections(SectionOpened(CurrentSections, data[das_i]))
    /\ das_i' = das_i + 1
    /\ UNCHANGED <<data, das_pc, dollar_section, no_models, no_load_cases>>
    /\ OthersUnchanged("das")

\* else: <container>[star_section].append(line)
ParseDataLine ==
    /\ das_pc = "parse"
    /\ das_i <= Len(data)
    /\ data[das_i][1] \notin {"$", "*"}
    /\ star_section \in DOMAIN CurrentSections
    /\ StoreSections(SectionAppended(CurrentSections, star_section, data[das_i]))
    /\ das_i' = das_i + 1
    /\ UNCHANGED <<data, das_pc, dollar_section, star_section,
                   no_models, no_load_cases>>
    /\ OthersUnchanged("das")

\* else: <container>[star_section] raises KeyError, which leaves the constructor
ParseDataLineKeyError ==
    /\ das_pc = "parse"
    /\ das_i <= Len(data)
    /\ data[das_i][1] \notin {"$", "*"}
    /\ star_section \notin DOMAIN CurrentSections
    /\ das_pc' = "KeyError"
    /\ UNCHANGED <<data, das_i, dollar_section, star_section,
                   models, no_models, load_cases, no_load_cases, das_data>>
    /\ OthersUnchanged("das")

\* the for loop is exhausted
ParseDone ==
    /\ das_pc = "parse"
    /\ das_i > Len(data)
    /\ das_pc' = "done"
    /\ UNCHANGED <<data, das_i, dollar_section, star_section,
                   models, no_models, load_cases, no_load_cases, das_data>>
    /\ OthersUnchanged("das")

(***************************************************************************)
(* Reference functions over the input, independent of the parser state     *)
(***************************************************************************)
IsDollar(line) == line[1] = "$"

IsStar(line) == line[1] = "*"

IsDasData(line) == ~IsDollar(line) /\ ~IsStar(line)

\* Lines 1..Processed have been consumed by the loop
Processed == das_i - 1

\* Number of lines equal to `marker` among lines 1..p
CountLines(marker, p) == Cardinality({k \in 1..p : data[k] = marker})

\* Index of the last `$` line before p (0 when there is none)
DollarBefore(p) ==
    IF \E k \in 1..(p - 1) : IsDollar(data[k])
    THEN CHOOSE k \in 1..(p - 1) :
            IsDollar(data[k]) /\ \A j \in (k + 1)..(p - 1) : ~IsDollar(data[j])
    ELSE 0

\* Last index of the run of data lines that follows line p, within 1..upto
RunEnd(p, upto) ==
    CHOOSE q \in p..upto :
        /\ \A j \in (p + 1)..q : IsDasData(data[j])
        /\ (q = upto \/ ~IsDasData(data[q + 1]))

LinesAfter(p, upto) == SubSeq(data, p + 1, RunEnd(p, upto))

\* The `*` lines of the consumed input that lie inside a `$` section
StarMarkers == {p \in 1..Processed : IsStar(data[p]) /\ DollarBefore(p) > 0}

\* The dict of star sections in which the marker at line p was opened
SectionsOf(p) ==
    LET d == data[DollarBefore(p)] IN
    IF d = MODEL THEN models[CountLines(MODEL, p)]
    ELSE IF d = LOAD_CASE THEN load_cases[CountLines(LOAD_CASE, p)]
    ELSE das_data[d]

\* A later consumed line re-initialises the list opened at line p: the same
\* star name in the same `$` section, or (for a `$` section kept in das_data)
\* the same `$` line again
Reopened(p) ==
    \E r \in (p + 1)..Processed :
        \/ data[r] = data[p] /\ DollarBefore(r) = DollarBefore(p)
        \/ /\ data[r] = data[DollarBefore(p)]
           /\ data[r] \notin {MODEL, LOAD_CASE}

\* C1 (as claimed): after parsing, the list stored for every star marker inside
\* a `$` section holds exactly the data lines that followed that marker, in order.
C1_SectionCoverageAnyInput ==
    das_pc = "done" =>
        \A p \in StarMarkers :
            /\ data[p] \in DOMAIN SectionsOf(p)
            /\ SectionsOf(p)[data[p]] = LinesAfter(p, Processed)

\* C1 (amended): at every point of the parse, the list stored for a star marker
\* inside a `$` section holds exactly the data lines consumed after that marker,
\* in order, unless the same star name was opened again in the same `$` section
\* or the same non-repeatable `$` section was opened again (the later
\* occurrence re-initialises the list).
C1_SectionCoverage ==
    \A p \in StarMarkers :
        ~Reopened(p) =>
            /\ data[p] \in DOMAIN SectionsOf(p)
            /\ SectionsOf(p)[data[p]] = LinesAfter(p, Processed)

\* C1 witness: a finished parse with a star section of two different data lines
C1_Witness ==
    /\ das_pc = "done"
    /\ \E p \in StarMarkers :
        /\ ~Reopened(p)
        /\ Len(LinesAfter(p, Processed)) = 2
        /\ LinesAfter(p, Processed)[1] # LinesAfter(p, Processed)[2]
        /\ SectionsOf(p)[data[p]] = LinesAfter(p, Processed)

\* C2: models has exactly the keys 1..r and load_cases the keys 1..s, where r
\* and s count the `$MODEL` and `$LOAD CASE` lines consumed so far (all of them
\* once the parse is done), and no_models = r, no_load_cases = s.
C2_OccurrenceCounting ==
    /\ no_models = CountLines(MODEL, Processed)
    /\ no_load_cases = CountLines(LOAD_CASE, Processed)
    /\ DOMAIN models = 1..no_models
    /\ DOMAIN load_cases = 1..no_load_cases
    /\ das_pc = "done" => Processed = Len(data)

\* C2 witness: a finished parse of two models and a load case
C2_Witness ==
    /\ das_pc = "done"
    /\ no_models = 2
    /\ no_load_cases = 1
    /\ DOMAIN models = {1, 2}

\* C4 (as claimed): a data line that directly follows a `$` marker is accepted
\* and appended to a list of that `$` section, not to the earlier star section.
C4_DataAfterDollarAccepted ==
    \A k \in 2..Len(data) :
        (IsDollar(data[k - 1]) /\ IsDasData(data[k]) /\ das_i >= k) =>
            /\ ~(das_pc = "KeyError" /\ das_i = k)
            /\ das_i = k + 1 =>
                \E s \in DOMAIN CurrentSections :
                    /\ CurrentSections[s] # EmptyList
                    /\ CurrentSections[s][Len(CurrentSections[s])] = data[k]

DasNext ==
    \/ ParseDollarLine
    \/ ParseStarLine
    \/ ParseDataLine
    \/ ParseDataLineKeyError
    \/ ParseDone

SpecDas == DasInit /\ [][DasNext]_vars

(***************************************************************************)
(* OutputFile.read_out_file                                                *)
(***************************************************************************)
MaxOutLines == 3

None == "None"

True == "True"

False == "False"

SP == " "

STARS == "***"

\* A file line without its newline, as tokens; <<>> is an empty line
OutLines == {
    <<SP, STARS, SP, "A", SP, STARS>>,
    <<SP, STARS, SP, "headers", SP, STARS>>,
    <<STARS, SP, "A", SP, STARS>>,
    <<SP, STARS, SP, "Articulation Element", SP, "1">>,
    <<"x">>,
    <<SP>>,
    <<>>,
    <<"Successful DeepRiser Analysis">>,
    <<"successful flexcom analysis">>,
    <<"Error: Solution has failed to converge.">>,
    <<"Error: The restart file for this analysis does not exist.">>,
    <<"No database files exist for opening.">>,
    <<"dongle">>}

\* substring in line, for a phrase that is one token
Contains(line, tok) == \E i \in DOMAIN line : line[i] = tok

\* str.lower() of a token
Lower(tok) ==
    CASE tok = "Successful DeepRiser Analysis" -> "successful deepriser analysis"
      [] tok = "CONSTANT" -> "constant"
      [] tok = "REYNOLDS" -> "reynolds"
      [] tok = "C" -> "c"
      [] tok \in {"IMPERIAL", "Imperial"} -> "imperial"
      [] tok = "METRIC" -> "metric"
      [] OTHER -> tok

\* f'successful {self.solver} analysis'
SuccessPhrase(s) ==
    IF s = "deepriser" THEN "successful deepriser analysis"
    ELSE "successful flexcom analysis"

\* the white space str.strip(), str.split() and float() skip
Whitespace == {SP, "\t", "\n"}

\* str.strip(): drop the leading and trailing white space
RECURSIVE LStrip(_)
LStrip(line) ==
    IF line # <<>> /\ Head(line) \in Whitespace THEN LStrip(Tail(line)) ELSE line

RECURSIVE RStrip(_)
RStrip(line) ==
    IF line # <<>> /\ line[Len(line)] \in Whitespace
    THEN RStrip(SubSeq(line, 1, Len(line) - 1))
    ELSE line

Strip(line) == RStrip(LStrip(line))

\* str.replace(tok, '')
Without(line, tok) == SelectSeq(line, LAMBDA t : t # tok)

\* ' *** ' in line and 'Articulation Element' not in line
IsOutHeader(line) ==
    /\ \E i \in 1..(Len(line) - 2) :
          line[i] = SP /\ line[i + 1] = STARS /\ line[i + 2] = SP
    /\ ~Contains(line, "Articulation Element")

\* key = line.replace('***', '').strip()
OutKey(line) == Strip(Without(line, STARS))

\* the five sentinel tests, in the order of the code
ConvergedAfter(line, conv) ==
    IF \/ Contains(line, "Error: Solution has failed to converge.")
       \/ Contains(line, "Error: The restart file for this analysis does not exist.")
       \/ Contains(line, "No database files exist for opening.")
       \/ Contains(line, "dongle")
    THEN False
    ELSE IF \E i \in DOMAIN line : Lower(line[i]) = SuccessPhrase(solver)
    THEN True
    ELSE conv

RestartAfter(line, r) ==
    IF Contains(line, "Error: The restart file for this analysis does not exist.")
    THEN False ELSE r

\* __init__ up to read_out_file: setup_variables, key = 'headers'
OutInit ==
    /\ out_file \in SeqsUpTo(OutLines, MaxOutLines)
    /\ solver \in {"deepriser", "flexcom"}
    /\ out_i = 1
    /\ out_pc = "read"
    /\ key = HEADERS
    /\ out_data = Put(EmptyDict, HEADERS, EmptyList)
    /\ converged = None
    /\ restart = "unset"
    /\ OthersIdle("out")

\* self.out_data[key] = []
OutSectionOpened(od, k) == Put(od, k, EmptyList)

\* if ' *** ' in line ...: key = ...; self.out_data[key] = []
ReadHeaderLine ==
    /\ out_pc = "read"
    /\ out_i <= Len(out_file)
    /\ Len(out_file[out_i]) > 0
    /\ IsOutHeader(out_file[out_i])
    /\ key' = OutKey(out_file[out_i])
    /\ out_data' = OutSectionOpened(out_data, OutKey(out_file[out_i]))
    /\ converged' = ConvergedAfter(out_file[out_i], converged)
    /\ restart' = RestartAfter(out_file[out_i], restart)
    /\ out_i' = out_i + 1
    /\ UNCHANGED <<out_file, solver, out_pc>>
    /\ OthersUnchanged("out")

\* elif len(line.strip()) > 0: self.out_data[key].append(line)
ReadDataLine ==
    /\ out_pc = "read"
    /\ out_i <= Len(out_file)
    /\ Len(out_file[out_i]) > 0
    /\ ~IsOutHeader(out_file[out_i])
    /\ Len(Strip(out_file[out_i])) > 0
    /\ out_data' = Put(out_data, key, Append(out_data[key], out_file[out_i]))
    /\ converged' = ConvergedAfter(out_file[out_i], converged)
    /\ restart' = RestartAfter(out_file[out_i], restart)
    /\ out_i' = out_i + 1
    /\ UNCHANGED <<out_file, solver, out_pc, key>>
    /\ OthersUnchanged("out")

\* an empty or all-blank line is ignored
ReadBlankLine ==
    /\ out_pc = "read"
    /\ out_i <= Len(out_file)
    /\ \/ Len(out_file[out_i]) = 0
       \/ ~IsOutHeader(out_file[out_i]) /\ Len(Strip(out_file[out_i])) = 0
    /\ converged' = ConvergedAfter(out_file[out_i], converged)
    /\ restart' = RestartAfter(out_file[out_i], restart)
    /\ out_i' = out_i + 1
    /\ UNCHANGED <<out_file, solver, out_pc, key, out_data>>
    /\ OthersUnchanged("out")

\* if not line: break
ReadDone ==
    /\ out_pc = "read"
    /\ out_i > Len(out_file)
    /\ out_pc' = "done"
    /\ UNCHANGED <<out_file, solver, out_i, key, out_data, converged, restart>>
    /\ OthersUnchanged("out")

OutNext ==
    \/ ReadHeaderLine
    \/ ReadDataLine
    \/ ReadBlankLine
    \/ ReadDone

SpecOut == OutInit /\ [][OutNext]_vars

\* Lines 1..OutProcessed of the output file have been read
OutProcessed == out_i - 1

\* A non-blank line that is not a section header
IsOutDataLine(line) == ~IsOutHeader(line) /\ Len(Strip(line)) > 0

\* How often `line` is input as a data line, and how often it is stored
TimesRead(line) ==
    Cardinality({i \in 1..OutProcessed : out_file[i] = line})

TimesStored(line) ==
    Cardinality({p \in UNION {{k} \X DOMAIN out_data[k] : k \in DOMAIN out_data} :
                    out_data[p[1]][p[2]] = line})

\* C3 (as claimed): after the read, every non-blank line that is not a section
\* header is held by exactly one section list of out_data: none lost, none twice.
C3_EveryDataLineKept ==
    out_pc = "done" =>
        \A line \in OutLines :
            IsOutDataLine(line) => TimesStored(line) = TimesRead(line)

\* The data lines read before the first section header
RECURSIVE Preamble(_, _)
Preamble(file, upto) ==
    IF upto = 0 THEN <<>>
    ELSE IF \E i \in 1..upto : Len(file[i]) > 0 /\ IsOutHeader(file[i])
    THEN Preamble(file, upto - 1)
    ELSE IF IsOutDataLine(file[upto])
    THEN Append(Preamble(file, upto - 1), file[upto])
    ELSE Preamble(file, upto - 1)

\* C5 (as claimed, OutputFile): out_data['headers'] holds exactly the data lines
\* read before the first section marker, in order; no later line is added to it.
C5_PreambleOnlyInHeaders ==
    /\ HEADERS \in DOMAIN out_data
    /\ out_data[HEADERS] = Preamble(out_file, OutProcessed)

(***************************************************************************)
(* Shear7File.parse_file and Shear7File.process_block3                     *)
(***************************************************************************)
MaxS7Lines == 4

BLOCK3 == <<"BLOCK 3">>

\* Lines of a Shear7 input file: a block marker, two count rows, two current
\* rows, a current row with a trailing `*** note ***` comment, and a current
\* row with a decimal point before such a comment
S7Lines == {
    <<STARS, SP, "BLOCK 3", ".", SP, "current", SP, STARS>>,
    <<"1", SP, "npts">>,
    <<"2", SP, "npts">>,
    <<"0", ",", SP, "1">>,
    <<"5", ",", SP, "2", SP, "comment">>,
    <<"5", ",", SP, "2", SP, STARS, SP, "note", SP, STARS>>,
    <<"5", ".", "0", ",", SP, "1", SP, STARS>>}

\* str.split(tok): the pieces between the occurrences of tok
RECURSIVE Split(_, _)
Split(line, tok) ==
    IF ~Contains(line, tok) THEN <<line>>
    ELSE LET i == CHOOSE k \in DOMAIN line :
                    line[k] = tok /\ \A j \in 1..(k - 1) : line[j] # tok
         IN <<SubSeq(line, 1, i - 1)>> \o Split(SubSeq(line, i + 1, Len(line)), tok)

\* str.split(): the blank-separated words
Words(line) == SelectSeq(Split(line, SP), LAMBDA w : w # <<>>)

\* A value, or the exception raised instead of it
Ok(v) == [err |-> "none", val |-> v]

Raise(e) == [err |-> e, val |-> 0]

\* seq[n] of Python (n is 0-based)
Item(seq, n) == IF n + 1 \in DOMAIN seq THEN Ok(seq[n + 1]) ELSE Raise("IndexError")

Digit == ("0" :> 0) @@ ("1" :> 1) @@ ("2" :> 2) @@ ("5" :> 5)

\* int(text)
PyInt(text) ==
    IF Len(Strip(text)) = 1 /\ Strip(text)[1] \in DOMAIN Digit
    THEN Ok(Digit[Strip(text)[1]])
    ELSE Raise("ValueError")

\* float(text), for whole-valued numbers
PyFloat(text) ==
    LET t == Strip(text) IN
    IF Len(t) = 1 /\ t[1] \in DOMAIN Digit THEN Ok(Digit[t[1]])
    ELSE IF Len(t) = 3 /\ t[1] \in DOMAIN Digit /\ t[2] = "." /\ t[3] = "0"
    THEN Ok(Digit[t[1]])
    ELSE Raise("ValueError")

\* str(x) of a whole-valued float x
StrFloat(x) ==
    CASE x = 0 -> "0.0" [] x = 1 -> "1.0" [] x = 2 -> "2.0" [] OTHER -> "5.0"

\* line.split(".")[0].split("***")[1].strip()
S7Section(line) ==
    LET piece == Item(Split(Split(line, ".")[1], STARS), 1) IN
    IF piece.err = "none" THEN Ok(Strip(piece.val)) ELSE piece

\* setup_variables; parse_file up to f.readlines()
S7Init ==
    /\ s7_file \in SeqsUpTo(S7Lines, MaxS7Lines)
    /\ s7_i = 1
    /\ s7_pc = "parse"
    /\ section = HEADERS
    /\ s7_data = Put(EmptyDict, HEADERS, EmptyList)
    /\ number_current_points = None
    /\ b3_i = 0
    /\ current_profile = EmptyList
    /\ current_text = <<>>
    /\ max_current = None
    /\ min_current = None
    /\ mean_current = None
    /\ OthersIdle("s7")

s7Block3Vars == <<number_current_points, b3_i, current_profile, current_text,
                  max_current, min_current, mean_current>>

\* if "***" in line: section = ...; self.data[section] = []
ParseS7Marker ==
    /\ s7_pc = "parse"
    /\ s7_i <= Len(s7_file)
    /\ Contains(s7_file[s7_i], STARS)
    /\ S7Section(s7_file[s7_i]).err = "none"
    /\ section' = S7Section(s7_file[s7_i]).val
    /\ s7_data' = Put(s7_data, S7Section(s7_file[s7_i]).val, EmptyList)
    /\ s7_i' = s7_i + 1
    /\ UNCHANGED <<s7_file, s7_pc, s7Block3Vars>>
    /\ OthersUnchanged("s7")

\* if "***" in line: ...split("***")[1] raises IndexError
ParseS7MarkerError ==
    /\ s7_pc = "parse"
    /\ s7_i <= Len(s7_file)
    /\ Contains(s7_file[s7_i], STARS)
    /\ S7Section(s7_file[s7_i]).err # "none"
    /\ s7_pc' = S7Section(s7_file[s7_i]).err
    /\ UNCHANGED <<s7_file, s7_i, section, s7_data, s7Block3Vars>>
    /\ OthersUnchanged("s7")

\* else: self.data[section].append(line)
ParseS7Data ==
    /\ s7_pc = "parse"
    /\ s7_i <= Len(s7_file)
    /\ ~Contains(s7_file[s7_i], STARS)
    /\ s7_data' = Put(s7_data, section, Append(s7_data[section], s7_file[s7_i]))
    /\ s7_i' = s7_i + 1
    /\ UNCHANGED <<s7_file, s7_pc, section, s7Block3Vars>>
    /\ OthersUnchanged("s7")

\* end of parse_file; the constructor goes on to process_block3
ParseS7Done ==
    /\ s7_pc = "parse"
    /\ s7_i > Len(s7_file)
    /\ s7_pc' = "block3"
    /\ UNCHANGED <<s7_file, s7_i, section, s7_data, s7Block3Vars>>
    /\ OthersUnchanged("s7")

\* int(self.data["BLOCK 3"][0].split()[0].split(",")[0])
Block3Count(lines) ==
    LET first == Item(lines, 0) IN
    IF first.err # "none" THEN first
    ELSE LET word == Item(Words(first.val), 0) IN
         IF word.err # "none" THEN word
         ELSE PyInt(Split(word.val, ",")[1])

\* depth = float(line.split(",")[0]); speed = float(line.split(",")[1].split()[0])
Block3Row(lines, i) ==
    LET line == Item(lines, i) IN
    IF line.err # "none" THEN line
    ELSE LET row_depth == PyFloat(Split(line.val, ",")[1])
             rest == Item(Split(line.val, ","), 1)
         IN IF row_depth.err # "none" THEN row_depth
            ELSE IF rest.err # "none" THEN rest
            ELSE LET word == Item(Words(rest.val), 0) IN
                 IF word.err # "none" THEN word
                 ELSE LET speed == PyFloat(word.val) IN
                      IF speed.err # "none" THEN speed
                      ELSE Ok(<<row_depth.val, speed.val>>)

\* if "BLOCK 3" in self.data: (no)
Block3Absent ==
    /\ s7_pc = "block3"
    /\ BLOCK3 \notin DOMAIN s7_data
    /\ s7_pc' = "done"
    /\ UNCHANGED <<s7_file, s7_i, section, s7_data, s7Block3Vars>>
    /\ OthersUnchanged("s7")

\* self.number_current_points = int(...); self.current_text = ""
Block3Header ==
    /\ s7_pc = "block3"
    /\ BLOCK3 \in DOMAIN s7_data
    /\ LET n == Block3Count(s7_data[BLOCK3]) IN
       IF n.err = "none"
       THEN /\ number_current_points' = n.val
            /\ b3_i' = 1
            /\ s7_pc' = "rows"
       ELSE /\ s7_pc' = n.err
            /\ UNCHANGED <<number_current_points, b3_i>>
    /\ UNCHANGED <<s7_file, s7_i, section, s7_data, current_profile, current_text,
                   max_current, min_current, mean_current>>
    /\ OthersUnchanged("s7")

\* for i in range(1, self.number_current_points + 1): one iteration
Block3ReadRow ==
    /\ s7_pc = "rows"
    /\ b3_i <= number_current_points
    /\ LET row == Block3Row(s7_data[BLOCK3], b3_i) IN
       IF row.err = "none"
       THEN /\ current_profile' = Append(current_profile, row.val)
            /\ current_text' = current_text \o
                   <<StrFloat(row.val[1]), ",", StrFloat(row.val[2]), ",">>
            /\ b3_i' = b3_i + 1
            /\ s7_pc' = s7_pc
       ELSE /\ s7_pc' = row.err
            /\ UNCHANGED <<current_profile, current_text, b3_i>>
    /\ UNCHANGED <<s7_file, s7_i, section, s7_data, number_current_points,
                   max_current, min_current, mean_current>>
    /\ OthersUnchanged("s7")

Speeds == {current_profile[k][2] : k \in DOMAIN current_profile}

RECURSIVE SumSpeeds(_)
SumSpeeds(profile) ==
    IF profile = <<>> THEN 0 ELSE Head(profile)[2] + SumSpeeds(Tail(profile))

\* round(n / d, 4), in units of 0.0001 (ties to even)
Round4(n, d) ==
    LET q == (20000 * n + d) \div (2 * d)
        tie == (20000 * n + d) % (2 * d) = 0
    IN IF tie /\ q % 2 = 1 THEN q - 1 ELSE q

\* the loop is over: current_text[:-1]; max, min and mean of the speeds
Block3Finish ==
    /\ s7_pc = "rows"
    /\ b3_i > number_current_points
    /\ current_text' = SubSeq(current_text, 1, Len(current_text) - 1)
    /\ IF number_current_points > 0
       THEN /\ max_current' = CHOOSE m \in Speeds : \A x \in Speeds : x <= m
            /\ min_current' = CHOOSE m \in Speeds : \A x \in Speeds : m <= x
            /\ mean_current' = Round4(SumSpeeds(current_profile), Len(current_profile))
       ELSE /\ max_current' = 0
            /\ min_current' = 0
            /\ mean_current' = 0
    /\ s7_pc' = "done"
    /\ UNCHANGED <<s7_file, s7_i, section, s7_data, number_current_points, b3_i,
                   current_profile>>
    /\ OthersUnchanged("s7")

S7Next ==
    \/ ParseS7Marker
    \/ ParseS7MarkerError
    \/ ParseS7Data
    \/ ParseS7Done
    \/ Block3Absent
    \/ Block3Header
    \/ Block3ReadRow
    \/ Block3Finish

SpecS7 == S7Init /\ [][S7Next]_vars

\* Line p is a BLOCK 3 marker whose next line declares n rows, all n of which
\* are present in the file and read as (depth, speed) rows by the row rule, and
\* no line outside those n rows other than the marker contains `***`
DeclaresTable(p, n) ==
    /\ Contains(s7_file[p], STARS)
    /\ S7Section(s7_file[p]).err = "none"
    /\ S7Section(s7_file[p]).val = BLOCK3
    /\ p + 1 + n <= Len(s7_file)
    /\ Block3Count(<<s7_file[p + 1]>>) = Ok(n)
    /\ \A j \in 1..n : Block3Row(<<s7_file[p + 1 + j]>>, 0).err = "none"
    /\ \A j \in DOMAIN s7_file :
          (j # p /\ j \notin (p + 2)..(p + 1 + n)) => ~Contains(s7_file[j], STARS)

\* C9 (as claimed): when the BLOCK 3 header declares N current points, the next
\* N lines are consumed as the current-profile rows whatever they contain: no
\* exception is raised, no section is opened by them, and current_profile is
\* exactly those N rows.
C9_FixedRowCountPrecedence ==
    \A p \in DOMAIN s7_file : \A n \in 0..MaxS7Lines :
        DeclaresTable(p, n) =>
            /\ s7_pc \notin {"IndexError", "ValueError"}
            /\ DOMAIN s7_data \subseteq {HEADERS, BLOCK3}
            /\ s7_pc = "done" =>
                  current_profile =
                      [j \in 1..n |-> Block3Row(<<s7_file[p + 1 + j]>>, 0).val]

\* A declared table without any `***` row is read completely
S7TableRead ==
    /\ s7_pc = "done"
    /\ \E p \in DOMAIN s7_file :
          /\ DeclaresTable(p, 2)
          /\ current_profile = [j \in 1..2 |-> Block3Row(<<s7_file[p + 1 + j]>>, 0).val]
          /\ current_profile[1] # current_profile[2]

(***************************************************************************)
(* DasFile.process_element_sets                                            *)
(***************************************************************************)
MaxElemRows == 4

ELEMENT_SETS == <<"*", "ELEMENT SETS">>

\* Lines that may stand in a *ELEMENT SETS section
ElemRows == {
    <<"SET=", "A">>,
    <<"SET=", SP, "B">>,
    <<"SET=">>,
    <<"GEN=", "1", ",", "2">>,
    <<"5", ",", "1">>,
    <<"2">>,
    <<"0", ",", "x">>}

\* The lines of a list of star sections, each <<star line, rows>>
RECURSIVE SectionLines(_)
SectionLines(stars) ==
    IF stars = <<>> THEN <<>>
    ELSE <<Head(stars)[1]>> \o Head(stars)[2] \o SectionLines(Tail(stars))

\* The lines of a das file of Len(secs) `$MODEL` sections; secs[m] is the list of
\* the star sections of model m
RECURSIVE ModelsFile(_)
ModelsFile(secs) ==
    IF secs = <<>> THEN <<>>
    ELSE <<MODEL>> \o SectionLines(Head(secs)) \o ModelsFile(Tail(secs))

\* The star section that is current at the end of such a file
RECURSIVE LastStar(_)
LastStar(secs) ==
    IF secs = <<>> THEN HEADERS
    ELSE IF secs[Len(secs)] # <<>> THEN secs[Len(secs)][Len(secs[Len(secs)])][1]
    ELSE LastStar(SubSeq(secs, 1, Len(secs) - 1))

\* The dict a `$MODEL` section of these star sections is parsed to
RECURSIVE SectionsDict(_)
SectionsDict(stars) ==
    IF stars = <<>> THEN EmptyDict
    ELSE Put(SectionsDict(SubSeq(stars, 1, Len(stars) - 1)),
             stars[Len(stars)][1], stars[Len(stars)][2])

\* The DasFile object after read_das_file and parse_das_file_data of that file
DasParsed(secs) ==
    /\ data = ModelsFile(secs)
    /\ das_i = Len(ModelsFile(secs)) + 1
    /\ das_pc = "done"
    /\ dollar_section = MODEL
    /\ star_section = LastStar(secs)
    /\ models = [m \in 1..Len(secs) |-> SectionsDict(secs[m])]
    /\ no_models = Len(secs)
    /\ load_cases = EmptyDict
    /\ no_load_cases = 0
    /\ das_data = Put(Put(EmptyDict, HEADERS, Put(EmptyDict, HEADERS, EmptyList)),
                      MODEL, EmptyDict)

\* process_element_sets(model=1) is entered on a constructed DasFile
ElemInit ==
    /\ \E rows \in SeqsUpTo(ElemRows, MaxElemRows) :
          \/ DasParsed(<< << <<ELEMENT_SETS, rows>> >> >>)
          \/ rows = <<>> /\ DasParsed(<< <<>> >>)
    /\ es_pc = "call"
    /\ es_i = 1
    /\ set = <<>>
    /\ element_sets = EmptyDict
    /\ OthersIdle("elem")

element_set_data == models[1][ELEMENT_SETS]

\* if e[0:4] == 'SET=': set = e[4:].strip()
SetAfterLine_KeepFirst(e, current) ==
    IF e[1] = "SET=" /\ current = <<>> THEN Strip(Tail(e)) ELSE current

SetAfterLine(e, current) ==
    IF e[1] = "SET=" THEN Strip(Tail(e)) ELSE current

\* range(a, b + 1) as a list
RECURSIVE Range(_, _)
Range(a, b) == IF a > b THEN <<>> ELSE <<a>> \o Range(a + 1, b)

\* gen = e.replace('GEN=', '').split(','); range(int(gen[0]), int(gen[1]) + 1)
GenElements(e) ==
    LET gen == Split(Without(e, "GEN="), ",")
        a == PyInt(gen[1])
        b == IF Len(gen) >= 2 THEN PyInt(gen[2]) ELSE Raise("IndexError")
    IN IF a.err # "none" THEN a
       ELSE IF b.err # "none" THEN b
       ELSE Ok(Range(a.val, b.val))

\* for i in elements: element_sets[set].append(int(i)), up to the first
\* element that int() rejects
RECURSIVE IntsOf(_)
IntsOf(elements) ==
    IF elements = <<>> THEN [err |-> "none", val |-> <<>>]
    ELSE LET i == PyInt(Head(elements)) IN
         IF i.err # "none" THEN [err |-> i.err, val |-> <<>>]
         ELSE LET rest == IntsOf(Tail(elements)) IN
              [err |-> rest.err, val |-> <<i.val>> \o rest.val]

\* if '*ELEMENT SETS' in self.models[model].keys(): (no) -- the method returns None
ElemAbsent ==
    /\ es_pc = "call"
    /\ ELEMENT_SETS \notin DOMAIN models[1]
    /\ es_pc' = "return None"
    /\ UNCHANGED <<es_i, set, element_sets, dasVars>>
    /\ OthersUnchanged("elem")

\* element_set_data = ...; set = ''
ElemEnter ==
    /\ es_pc = "call"
    /\ ELEMENT_SETS \in DOMAIN models[1]
    /\ es_pc' = "loop"
    /\ UNCHANGED <<es_i, set, element_sets, dasVars>>
    /\ OthersUnchanged("elem")

\* if e[0:4] == 'SET=': set = ...; element_sets[set] = []
ElemSetLine ==
    /\ es_pc = "loop"
    /\ es_i <= Len(element_set_data)
    /\ element_set_data[es_i][1] = "SET="
    /\ set' = SetAfterLine(element_set_data[es_i], set)
    /\ element_sets' = Put(element_sets, set', EmptyList)
    /\ es_i' = es_i + 1
    /\ UNCHANGED <<es_pc, dasVars>>
    /\ OthersUnchanged("elem")

\* elif set != '': (no) -- a row before the first named set is skipped
ElemSkipRow ==
    /\ es_pc = "loop"
    /\ es_i <= Len(element_set_data)
    /\ element_set_data[es_i][1] # "SET="
    /\ set = <<>>
    /\ es_i' = es_i + 1
    /\ UNCHANGED <<es_pc, set, element_sets, dasVars>>
    /\ OthersUnchanged("elem")

\* if 'GEN=' in e: every element of the generated range is appended
ElemGenRow ==
    /\ es_pc = "loop"
    /\ es_i <= Len(element_set_data)
    /\ element_set_data[es_i][1] # "SET="
    /\ set # <<>>
    /\ Contains(element_set_data[es_i], "GEN=")
    /\ LET gen == GenElements(element_set_data[es_i]) IN
       IF gen.err = "none"
       THEN /\ element_sets' = Put(element_sets, set, element_sets[set] \o gen.val)
            /\ es_i' = es_i + 1
            /\ es_pc' = es_pc
       ELSE /\ es_pc' = gen.err
            /\ UNCHANGED <<es_i, element_sets>>
    /\ UNCHANGED <<set, dasVars>>
    /\ OthersUnchanged("elem")

\* else: elements = e.split(','); each int(i) is appended
ElemListRow ==
    /\ es_pc = "loop"
    /\ es_i <= Len(element_set_data)
    /\ element_set_data[es_i][1] # "SET="
    /\ set # <<>>
    /\ ~Contains(element_set_data[es_i], "GEN=")
    /\ LET ints == IntsOf(Split(element_set_data[es_i], ",")) IN
       /\ element_sets' = Put(element_sets, set, element_sets[set] \o ints.val)
       /\ IF ints.err = "none"
          THEN es_i' = es_i + 1 /\ es_pc' = es_pc
          ELSE es_i' = es_i /\ es_pc' = ints.err
    /\ UNCHANGED <<set, dasVars>>
    /\ OthersUnchanged("elem")

\* return element_sets
ElemReturn ==
    /\ es_pc = "loop"
    /\ es_i > Len(element_set_data)
    /\ es_pc' = "return"
    /\ UNCHANGED <<es_i, set, element_sets, dasVars>>
    /\ OthersUnchanged("elem")

ElemNext ==
    \/ ElemAbsent
    \/ ElemEnter
    \/ ElemSetLine
    \/ ElemSkipRow
    \/ ElemGenRow
    \/ ElemListRow
    \/ ElemReturn

SpecElem == ElemInit /\ [][ElemNext]_vars

\* Rows 1..ElemProcessed of the section have been handled
ElemProcessed == es_i - 1

IsSetLine(e) == e[1] = "SET="

SetName(e) == Strip(Tail(e))

\* The elements a well-formed element row stands for
RowElements(e) ==
    IF Contains(e, "GEN=") THEN GenElements(e).val ELSE IntsOf(Split(e, ",")).val

\* The elements of rows from..to, in order
RECURSIVE ElementsOfRows(_, _)
ElementsOfRows(from, to) ==
    IF from > to THEN <<>>
    ELSE ElementsOfRows(from, to - 1) \o RowElements(element_set_data[to])

\* The handled `SET=` lines that no later handled `SET=` line of the same name follows
LastSetLines ==
    {q \in 1..ElemProcessed :
        /\ IsSetLine(element_set_data[q])
        /\ \A r \in (q + 1)..ElemProcessed :
              IsSetLine(element_set_data[r]) =>
                  SetName(element_set_data[r]) # SetName(element_set_data[q])}

\* The last row of the run of element rows after the `SET=` line q
SetRunEnd(q) ==
    CHOOSE r \in q..ElemProcessed :
        /\ \A j \in (q + 1)..r : ~IsSetLine(element_set_data[j])
        /\ (r = ElemProcessed \/ IsSetLine(element_set_data[r + 1]))

\* C6: while the rows of a *ELEMENT SETS section are handled, the elements of
\* the rows that follow a `SET=name` line are stored, in order, under that name
\* (the most recently seen one) and under no other set: every set's list is
\* exactly the elements of the rows between its `SET=` line and the next one.
\* Rows before the first `SET=` line are stored nowhere.
C6_CarryForwardElementSets ==
    es_pc \in {"loop", "return"} =>
        /\ DOMAIN element_sets =
              {SetName(element_set_data[q]) : q \in LastSetLines}
        /\ \A q \in LastSetLines :
              SetName(element_set_data[q]) # <<>> =>
                  element_sets[SetName(element_set_data[q])] =
                      ElementsOfRows(q + 1, SetRunEnd(q))
        /\ (\A q \in 1..ElemProcessed : ~IsSetLine(element_set_data[q])) =>
              element_sets = EmptyDict

\* C6 witness: a row before the first `SET=` line, then a set of a GEN row and
\* a comma list; the set holds the elements of both rows and the first row's
\* elements are nowhere
C6_Witness ==
    /\ es_pc = "return"
    /\ Len(element_set_data) = 4
    /\ element_set_data[1] = <<"2">>
    /\ element_set_data[2] = <<"SET=", "A">>
    /\ element_sets = Put(EmptyDict, <<"A">>, <<1, 2, 5, 1>>)

(***************************************************************************)
(* DasFile.process_hydro_sets                                              *)
(* A value that may be None is <<>> for None and <<v>> for the value v.    *)
(***************************************************************************)
MaxHydroRows == 3

HYDRO_SETS == <<"*", "HYDRODYNAMIC SETS">>

NoValue == <<>>

Some(v) == <<v>>

\* coeffs
Coeffs == <<"Normal Drag", "Tangential Drag", "Normal Inertia",
            "Normal Added Mass", "Tangential Added Mass", "Drag Lift">>

\* Lines that may stand in a *HYDRODYNAMIC SETS section
HydroRows == {
    <<"SET=", "A", ",", SP, "TYPE=", "CONSTANT">>,
    <<"SET=", "R", ",", SP, "TYPE=", "REYNOLDS">>,
    <<"SET=", "B">>,
    <<"DIAMETER=", "1">>,
    <<"DIAMETER=", "2">>,
    <<"OPTION=", "5">>,
    <<"1", ",", "2">>}

\* The star sections a second `$MODEL` may have
SecondModels ==
    {<<>>} \cup {<< <<HYDRO_SETS, <<r>> >> >> : r \in HydroRows}

\* process_hydro_sets is entered on a constructed DasFile of one or two models
HydroInit ==
    /\ \E rows \in SeqsUpTo(HydroRows, MaxHydroRows) :
          \/ DasParsed(<< << <<HYDRO_SETS, rows>> >> >>)
          \/ \E second \in SecondModels :
                DasParsed(<< << <<HYDRO_SETS, rows>> >>, second >>)
          \/ rows = <<>> /\ DasParsed(<< <<>> >>)
    /\ h_pc = "models"
    /\ h_model = 1
    /\ h_i = 1
    /\ hydro_sets = EmptyDict
    /\ df_hydro_sets = NoValue
    /\ option = NoValue
    /\ diameter = NoValue
    /\ hydro_type = NoValue
    /\ set_name = NoValue
    /\ OthersIdle("hydro")

hydro_lines == models[h_model][HYDRO_SETS]

\* str.lower() of a text
LowerAll(text) == [k \in DOMAIN text |-> Lower(text[k])]

\* {'Type': hydro_type, 'Diameter': diameter, 'Option': option, <coeff>: None, ...}
NewHydroSet(type, diam, opt) ==
    [f \in {"Type", "Diameter", "Option"} \cup {Coeffs[k] : k \in DOMAIN Coeffs} |->
        CASE f = "Type" -> type
          [] f = "Diameter" -> diam
          [] f = "Option" -> opt
          [] OTHER -> NoValue]

RECURSIVE CoeffsAssigned_FirstName(_, _, _)
CoeffsAssigned_FirstName(entry, values, idx) ==
    IF values = <<>> THEN [err |-> "none", val |-> entry]
    ELSE IF idx + 1 \notin DOMAIN Coeffs THEN [err |-> "IndexError", val |-> entry]
    ELSE LET c == PyFloat(Head(values)) IN
         IF c.err # "none" THEN [err |-> c.err, val |-> entry]
         ELSE CoeffsAssigned_FirstName(Put(entry, Coeffs[1], Some(c.val)),
                                       Tail(values), idx + 1)

\* for idx, c in enumerate(values): entry[coeffs[idx]] = float(c), from index idx
\* on, up to the first value that raises
RECURSIVE CoeffsAssigned(_, _, _)
CoeffsAssigned(entry, values, idx) ==
    IF values = <<>> THEN [err |-> "none", val |-> entry]
    ELSE IF idx + 1 \notin DOMAIN Coeffs THEN [err |-> "IndexError", val |-> entry]
    ELSE LET c == PyFloat(Head(values)) IN
         IF c.err # "none" THEN [err |-> c.err, val |-> entry]
         ELSE CoeffsAssigned(Put(entry, Coeffs[idx + 1], Some(c.val)),
                             Tail(values), idx + 1)

\* set_name = s.replace('SET=', '').split(',')[0].strip()
HydroSetName(s) == Strip(Split(Without(s, "SET="), ",")[1])

\* if ',' in s: hydro_type = s.split(',')[1].strip().replace('TYPE=', '').lower()
HydroTypeAfter(s, type) ==
    IF Contains(Without(s, "SET="), ",")
    THEN Some(LowerAll(Without(Strip(Split(Without(s, "SET="), ",")[2]), "TYPE=")))
    ELSE type

\* f'{set_name} Re - {reynolds}'
ReynoldsKey(sname, reynolds) == sname \o <<" Re - ", StrFloat(reynolds)>>

\* a line that is none of SET=, DIAMETER=, OPTION=
IsCoeffRow(s) ==
    ~Contains(s, "SET=") /\ ~Contains(s, "DIAMETER=") /\ ~Contains(s, "OPTION=")

\* if self.df_hydro_sets is None: from_dict(hydro_sets) else: concat([df, from_dict])
\* (a DataFrame is the list of the dicts it was built from, one row per key)
DfAfterModel(df, sets) ==
    IF df = NoValue THEN Some(<<sets>>) ELSE Some(Append(df[1], sets))

\* for model in self.models.keys(): a model without *HYDRODYNAMIC SETS
HydroSkipModel ==
    /\ h_pc = "models"
    /\ h_model <= no_models
    /\ HYDRO_SETS \notin DOMAIN models[h_model]
    /\ df_hydro_sets' = DfAfterModel(df_hydro_sets, hydro_sets)
    /\ h_model' = h_model + 1
    /\ UNCHANGED <<h_pc, h_i, hydro_sets, option, diameter, hydro_type, set_name,
                   dasVars>>
    /\ OthersUnchanged("hydro")

\* if '*HYDRODYNAMIC SETS' in self.models[model]: for s in ...
HydroEnterModel ==
    /\ h_pc = "models"
    /\ h_model <= no_models
    /\ HYDRO_SETS \in DOMAIN models[h_model]
    /\ h_pc' = "rows"
    /\ h_i' = 1
    /\ UNCHANGED <<h_model, hydro_sets, df_hydro_sets, option, diameter, hydro_type,
                   set_name, dasVars>>
    /\ OthersUnchanged("hydro")

\* if 'SET=' in s: ...
HydroSetLine ==
    /\ h_pc = "rows"
    /\ h_i <= Len(hydro_lines)
    /\ Contains(hydro_lines[h_i], "SET=")
    /\ set_name' = Some(HydroSetName(hydro_lines[h_i]))
    /\ hydro_type' = HydroTypeAfter(hydro_lines[h_i], hydro_type)
    /\ IF hydro_type' = NoValue
       THEN \* None.lower()
            /\ h_pc' = "AttributeError"
            /\ UNCHANGED <<h_i, hydro_sets>>
       ELSE /\ h_pc' = h_pc
            /\ h_i' = h_i + 1
            /\ hydro_sets' =
                  IF LowerAll(hydro_type'[1]) = <<"constant">>
                  THEN Put(hydro_sets, HydroSetName(hydro_lines[h_i]),
                           NewHydroSet(hydro_type'[1], diameter, option))
                  ELSE hydro_sets
    /\ UNCHANGED <<h_model, df_hydro_sets, option, diameter, dasVars>>
    /\ OthersUnchanged("hydro")

\* elif 'DIAMETER=' in s: diameter = s.split('DIAMETER=')[1].strip()
HydroDiameterLine ==
    /\ h_pc = "rows"
    /\ h_i <= Len(hydro_lines)
    /\ ~Contains(hydro_lines[h_i], "SET=")
    /\ Contains(hydro_lines[h_i], "DIAMETER=")
    /\ diameter' = Some(Strip(Split(hydro_lines[h_i], "DIAMETER=")[2]))
    /\ h_i' = h_i + 1
    /\ UNCHANGED <<h_pc, h_model, hydro_sets, df_hydro_sets, option, hydro_type,
                   set_name, dasVars>>
    /\ OthersUnchanged("hydro")

\* elif 'OPTION=' in s: option = s.split('OPTION=')[1].strip()
HydroOptionLine ==
    /\ h_pc = "rows"
    /\ h_i <= Len(hydro_lines)
    /\ ~Contains(hydro_lines[h_i], "SET=")
    /\ ~Contains(hydro_lines[h_i], "DIAMETER=")
    /\ Contains(hydro_lines[h_i], "OPTION=")
    /\ option' = Some(Strip(Split(hydro_lines[h_i], "OPTION=")[2]))
    /\ h_i' = h_i + 1
    /\ UNCHANGED <<h_pc, h_model, hydro_sets, df_hydro_sets, diameter, hydro_type,
                   set_name, dasVars>>
    /\ OthersUnchanged("hydro")

\* else: if hydro_type == 'constant': the row fills the entry made at the SET= line
HydroConstantRow ==
    /\ h_pc = "rows"
    /\ h_i <= Len(hydro_lines)
    /\ IsCoeffRow(hydro_lines[h_i])
    /\ hydro_type = Some(<<"constant">>)
    /\ LET filled == CoeffsAssigned(hydro_sets[set_name[1]],
                                    Split(hydro_lines[h_i], ","), 0) IN
       /\ hydro_sets' = Put(hydro_sets, set_name[1], filled.val)
       /\ IF filled.err = "none"
          THEN h_pc' = h_pc /\ h_i' = h_i + 1
          ELSE h_pc' = filled.err /\ h_i' = h_i
    /\ UNCHANGED <<h_model, df_hydro_sets, option, diameter, hydro_type, set_name,
                   dasVars>>
    /\ OthersUnchanged("hydro")

\* else: else: the row makes and fills the entry '<set_name> Re - <reynolds>'
HydroReynoldsRow ==
    /\ h_pc = "rows"
    /\ h_i <= Len(hydro_lines)
    /\ IsCoeffRow(hydro_lines[h_i])
    /\ hydro_type # Some(<<"constant">>)
    /\ LET values == Split(hydro_lines[h_i], ",")
           reynolds == PyFloat(values[1])
       IN IF reynolds.err # "none"
          THEN h_pc' = reynolds.err /\ UNCHANGED <<h_i, hydro_sets>>
          ELSE IF set_name = NoValue
          THEN \* set_name is read before any SET= line bound it
               h_pc' = "UnboundLocalError" /\ UNCHANGED <<h_i, hydro_sets>>
          ELSE LET filled == CoeffsAssigned(
                                NewHydroSet(hydro_type[1], diameter, option),
                                Tail(values), 0)
               IN /\ hydro_sets' = Put(hydro_sets,
                                       ReynoldsKey(set_name[1], reynolds.val),
                                       filled.val)
                  /\ IF filled.err = "none"
                     THEN h_pc' = h_pc /\ h_i' = h_i + 1
                     ELSE h_pc' = filled.err /\ h_i' = h_i
    /\ UNCHANGED <<h_model, df_hydro_sets, option, diameter, hydro_type, set_name,
                   dasVars>>
    /\ OthersUnchanged("hydro")

\* the section's lines are exhausted: the DataFrame is built or extended
HydroEndModel ==
    /\ h_pc = "rows"
    /\ h_i > Len(hydro_lines)
    /\ df_hydro_sets' = DfAfterModel(df_hydro_sets, hydro_sets)
    /\ h_model' = h_model + 1
    /\ h_pc' = "models"
    /\ UNCHANGED <<h_i, hydro_sets, option, diameter, hydro_type, set_name, dasVars>>
    /\ OthersUnchanged("hydro")

\* self.models.keys() is exhausted
HydroDone ==
    /\ h_pc = "models"
    /\ h_model > no_models
    /\ h_pc' = "done"
    /\ UNCHANGED <<h_model, h_i, hydro_sets, df_hydro_sets, option, diameter,
                   hydro_type, set_name, dasVars>>
    /\ OthersUnchanged("hydro")

HydroNext ==
    \/ HydroSkipModel
    \/ HydroEnterModel
    \/ HydroSetLine
    \/ HydroDiameterLine
    \/ HydroOptionLine
    \/ HydroConstantRow
    \/ HydroReynoldsRow
    \/ HydroEndModel
    \/ HydroDone

SpecHydro == HydroInit /\ [][HydroNext]_vars

\* The *HYDRODYNAMIC SETS lines of models from..to, in order
RECURSIVE HydroLinesOf(_, _)
HydroLinesOf(from, to) ==
    IF from > to THEN <<>>
    ELSE HydroLinesOf(from, to - 1) \o
         (IF HYDRO_SETS \in DOMAIN models[to] THEN models[to][HYDRO_SETS] ELSE <<>>)

\* The lines handled so far, over all models
HydroSeen ==
    HydroLinesOf(1, h_model - 1) \o
    (IF h_pc = "rows" THEN SubSeq(hydro_lines, 1, h_i - 1) ELSE <<>>)

\* The value of the last `KEY=` line among lines, None when there is none
LastValueOf(lines, k) ==
    LET at == {j \in DOMAIN lines :
                  /\ Contains(lines[j], k)
                  /\ ~Contains(lines[j], "SET=")
                  /\ (k = "OPTION=" => ~Contains(lines[j], "DIAMETER="))}
    IN IF at = {} THEN NoValue
       ELSE LET j == CHOOSE x \in at : \A y \in at : y <= x
            IN Some(Strip(Split(lines[j], k)[2]))

\* The hydro_sets entry that the coefficient row handled last belongs to
LastRowEntry ==
    IF hydro_type = Some(<<"constant">>)
    THEN hydro_sets[set_name[1]]
    ELSE hydro_sets[ReynoldsKey(set_name[1],
                       PyFloat(Split(hydro_lines[h_i - 1], ",")[1]).val)]

\* C7 (as claimed): the Diameter and Option recorded for a coefficient row are
\* the values of the last DIAMETER= and OPTION= lines seen before that row, for
\* constant-type and Reynolds-type sets alike.
C7_LastSeenDiameterWins ==
    (h_pc = "rows" /\ h_i > 1 /\ IsCoeffRow(hydro_lines[h_i - 1])) =>
        /\ LastRowEntry["Diameter"] = LastValueOf(HydroSeen, "DIAMETER=")
        /\ LastRowEntry["Option"] = LastValueOf(HydroSeen, "OPTION=")

(***************************************************************************)
(* DasFile.process_soil and DasFile.get_node_coordinates                   *)
(***************************************************************************)
MaxSoilRows == 4

P_Y == <<"*", "P-Y">>

NODE == <<"*", "NODE">>

\* Lines that may stand in a *P-Y section
SoilRows == {
    <<"SET=", "S">>,
    <<"NODE=", "1">>,
    <<"DEPTH=", "0">>,
    <<"DEPTH=", "2">>,
    <<"1", ",", "2">>,
    <<"5", ",", "1">>,
    <<"2">>}

\* The *NODE sections model 1 may have: none, node 1 at x = 2.0, node 1 at
\* x = 0.0, a node line of fewer than four fields
NodeSections == {
    <<>>,
    << <<NODE, << <<"1", ",", "2", ",", "0", ",", "0">> >> >> >>,
    << <<NODE, << <<"1", ",", SP, "0", ",", "0", ",", "0">> >> >> >>,
    << <<NODE, << <<"1", ",", "2">> >> >> >>}

\* setup_variables (self.p_y_curves = {}), then process_soil() as __init__ calls it
SoilInit ==
    /\ \E nodes \in NodeSections, rows \in SeqsUpTo(SoilRows, MaxSoilRows) :
          \/ DasParsed(<< nodes \o << <<P_Y, rows>> >> >>)
          \/ rows = <<>> /\ DasParsed(<< nodes >>)
    /\ soil_pc = "call"
    /\ soil_idx = 1
    /\ depth = NoValue
    /\ p_y_curves = EmptyDict
    /\ OthersIdle("soil")

soil_lines == models[1][P_Y]

\* {'p': [], 'y': []}
NewCurve == [p |-> EmptyList, y |-> EmptyList]

\* get_node_coordinates: the loop over the lines of *NODE, for a single node
RECURSIVE NodeSearch(_, _)
NodeSearch(nodes, node) ==
    IF nodes = <<>> THEN Ok(EmptyList)
    ELSE LET n == Split(Without(Head(nodes), SP), ",") IN
         IF Len(n) >= 4
         THEN LET x == PyFloat(n[2])
                  y == PyFloat(n[3])
                  z == PyFloat(n[4])
              IN IF x.err # "none" THEN x
                 ELSE IF y.err # "none" THEN y
                 ELSE IF z.err # "none" THEN z
                 ELSE IF Strip(n[1]) = node THEN Ok(<<x.val, y.val, z.val>>)
                 ELSE NodeSearch(Tail(nodes), node)
         ELSE NodeSearch(Tail(nodes), node)

\* get_node_coordinates(node, model=1) for a node that is not 'all'
get_node_coordinates(node) ==
    IF NODE \in DOMAIN models[1]
    THEN NodeSearch(models[1][NODE], Strip(node))
    ELSE Ok(EmptyList)

\* self.get_node_coordinates(n)[0]
NodeDepth(n) ==
    LET coords == get_node_coordinates(n) IN
    IF coords.err # "none" THEN coords ELSE Item(coords.val, 0)

\* if depth: (None and 0.0 are false)
Truthy(d) == d # NoValue /\ d[1] # 0

\* if '*P-Y' in self.models[model].keys(): is false
SoilAbsent ==
    /\ soil_pc = "call"
    /\ P_Y \notin DOMAIN models[1]
    /\ soil_pc' = "done"
    /\ UNCHANGED <<soil_idx, depth, p_y_curves, dasVars>>
    /\ OthersUnchanged("soil")

\* if '*P-Y' in self.models[model].keys(): for idx, d in enumerate(...)
SoilEnter ==
    /\ soil_pc = "call"
    /\ P_Y \in DOMAIN models[1]
    /\ soil_pc' = "loop"
    /\ UNCHANGED <<soil_idx, depth, p_y_curves, dasVars>>
    /\ OthersUnchanged("soil")

\* if 'SET=' in d: pass
SoilSetLine ==
    /\ soil_pc = "loop"
    /\ soil_idx <= Len(soil_lines)
    /\ Contains(soil_lines[soil_idx], "SET=")
    /\ soil_idx' = soil_idx + 1
    /\ UNCHANGED <<soil_pc, depth, p_y_curves, dasVars>>
    /\ OthersUnchanged("soil")

\* elif 'NODE=' in d: depth = self.get_node_coordinates(n)[0]
SoilNodeLine ==
    /\ soil_pc = "loop"
    /\ soil_idx <= Len(soil_lines)
    /\ ~Contains(soil_lines[soil_idx], "SET=")
    /\ Contains(soil_lines[soil_idx], "NODE=")
    /\ LET x == NodeDepth(Without(soil_lines[soil_idx], "NODE=")) IN
       IF x.err # "none"
       THEN soil_pc' = x.err /\ UNCHANGED <<soil_idx, depth, p_y_curves>>
       ELSE /\ depth' = Some(x.val)
            /\ p_y_curves' = Put(p_y_curves, x.val, NewCurve)
            /\ soil_idx' = soil_idx + 1
            /\ soil_pc' = soil_pc
    /\ UNCHANGED dasVars
    /\ OthersUnchanged("soil")

\* elif 'DEPTH=' in d: depth = float(d.replace('DEPTH=', ''))
SoilDepthLine ==
    /\ soil_pc = "loop"
    /\ soil_idx <= Len(soil_lines)
    /\ ~Contains(soil_lines[soil_idx], "SET=")
    /\ ~Contains(soil_lines[soil_idx], "NODE=")
    /\ Contains(soil_lines[soil_idx], "DEPTH=")
    /\ LET x == PyFloat(Without(soil_lines[soil_idx], "DEPTH=")) IN
       IF x.err # "none"
       THEN soil_pc' = x.err /\ UNCHANGED <<soil_idx, depth, p_y_curves>>
       ELSE /\ depth' = Some(x.val)
            /\ p_y_curves' = Put(p_y_curves, x.val, NewCurve)
            /\ soil_idx' = soil_idx + 1
            /\ soil_pc' = soil_pc
    /\ UNCHANGED dasVars
    /\ OthersUnchanged("soil")

\* a line that is none of SET=, NODE=, DEPTH=
IsSoilRow(d) ==
    ~Contains(d, "SET=") /\ ~Contains(d, "NODE=") /\ ~Contains(d, "DEPTH=")

\* else: if depth: if len(d.split(',')) == 2: append float(d[0]), float(d[1])
SoilRow ==
    /\ soil_pc = "loop"
    /\ soil_idx <= Len(soil_lines)
    /\ IsSoilRow(soil_lines[soil_idx])
    /\ Truthy(depth)
    /\ Len(Split(soil_lines[soil_idx], ",")) = 2
    /\ LET d == Split(soil_lines[soil_idx], ",")
           p == PyFloat(d[1])
           y == PyFloat(d[2])
           curve == p_y_curves[depth[1]]
       IN IF p.err # "none"
          THEN soil_pc' = p.err /\ UNCHANGED <<soil_idx, p_y_curves>>
          ELSE IF y.err # "none"
          THEN /\ soil_pc' = y.err
               /\ p_y_curves' = Put(p_y_curves, depth[1],
                                    [curve EXCEPT !.p = Append(@, p.val)])
               /\ UNCHANGED soil_idx
          ELSE /\ p_y_curves' = Put(p_y_curves, depth[1],
                                    [curve EXCEPT !.p = Append(@, p.val),
                                                  !.y = Append(@, y.val)])
               /\ soil_idx' = soil_idx + 1
               /\ soil_pc' = soil_pc
    /\ UNCHANGED <<depth, dasVars>>
    /\ OthersUnchanged("soil")

\* else: with `if depth:` false, or a line that has not two fields
SoilSkipRow ==
    /\ soil_pc = "loop"
    /\ soil_idx <= Len(soil_lines)
    /\ IsSoilRow(soil_lines[soil_idx])
    /\ ~(Truthy(depth) /\ Len(Split(soil_lines[soil_idx], ",")) = 2)
    /\ soil_idx' = soil_idx + 1
    /\ UNCHANGED <<soil_pc, depth, p_y_curves, dasVars>>
    /\ OthersUnchanged("soil")

\* the lines of *P-Y are exhausted
SoilDone ==
    /\ soil_pc = "loop"
    /\ soil_idx > Len(soil_lines)
    /\ soil_pc' = "done"
    /\ UNCHANGED <<soil_idx, depth, p_y_curves, dasVars>>
    /\ OthersUnchanged("soil")

SoilNext ==
    \/ SoilAbsent
    \/ SoilEnter
    \/ SoilSetLine
    \/ SoilNodeLine
    \/ SoilDepthLine
    \/ SoilRow
    \/ SoilSkipRow
    \/ SoilDone

SpecSoil == SoilInit /\ [][SoilNext]_vars

\* The lines of *P-Y handled so far
SoilSeen ==
    IF soil_pc \in {"loop", "done"} /\ P_Y \in DOMAIN models[1]
    THEN SubSeq(soil_lines, 1, soil_idx - 1)
    ELSE <<>>

\* A line that sets the current depth: NODE= or DEPTH=
SetsDepth(d) ==
    ~Contains(d, "SET=") /\ (Contains(d, "NODE=") \/ Contains(d, "DEPTH="))

IsDepthLine(d) ==
    ~Contains(d, "SET=") /\ ~Contains(d, "NODE=") /\ Contains(d, "DEPTH=")

IsPYRow(d) == IsSoilRow(d) /\ Len(Split(d, ",")) = 2

\* The p and y columns of the two-column rows among lines, in order
RECURSIVE ColumnOf(_, _)
ColumnOf(lines, c) ==
    IF lines = <<>> THEN <<>>
    ELSE IF IsPYRow(Head(lines))
    THEN <<PyFloat(Split(Head(lines), ",")[c]).val>> \o ColumnOf(Tail(lines), c)
    ELSE ColumnOf(Tail(lines), c)

\* C8 (as claimed): for every numeric depth d, the two-column rows that follow
\* a `DEPTH=d` line, up to the next DEPTH= or NODE= line, are the p and y lists
\* of p_y_curves[d], in order.
C8_DepthCarryForward ==
    \A j \in DOMAIN SoilSeen :
        (/\ IsDepthLine(SoilSeen[j])
         /\ \A k \in (j + 1)..Len(SoilSeen) : ~SetsDepth(SoilSeen[k])) =>
            LET d == PyFloat(Without(SoilSeen[j], "DEPTH=")).val
                rows == SubSeq(SoilSeen, j + 1, Len(SoilSeen))
            IN /\ d \in DOMAIN p_y_curves
               /\ p_y_curves[d].p = ColumnOf(rows, 1)
               /\ p_y_curves[d].y = ColumnOf(rows, 2)

(***************************************************************************)
(* dpx_reader: convert_to_number and DPX.parse_dpx                         *)
(* A value of a field is a record: a float, a str, None or numpy's nan.    *)
(***************************************************************************)
MaxDpxLines == 4

\* the double quote, at which parse_dpx splits a line
Q == "\""

Num(x) == [kind |-> "float", num |-> x, text |-> <<>>]

Str(s) == [kind |-> "str", num |-> 0, text |-> s]

PyNone == [kind |-> "None", num |-> 0, text |-> <<>>]

NaN == [kind |-> "nan", num |-> 0, text |-> <<>>]

\* convert_to_number(s, return_none=False, return_np_nan=False), with None
\* returned where the code returns s
convert_to_number_ReturnNone(s, return_none, return_np_nan) ==
    IF return_none /\ return_np_nan THEN Raise("Exception")
    ELSE IF PyFloat(s).err = "none" THEN Ok(Num(PyFloat(s).val))
    ELSE IF return_np_nan THEN Ok(NaN)
    ELSE Ok(PyNone)

\* convert_to_number(s, return_none=False, return_np_nan=False)
convert_to_number(s, return_none, return_np_nan) ==
    IF return_none /\ return_np_nan THEN Raise("Exception")
    ELSE IF PyFloat(s).err = "none" THEN Ok(Num(PyFloat(s).val))
    ELSE IF return_none THEN Ok(PyNone)
    ELSE IF return_np_nan THEN Ok(NaN)
    ELSE Ok(Str(s))

\* Lines of a .dpx file
ComponentLine(n, id, type) ==
    <<"<component name=", Q, n, Q, " id=", Q, id, Q, " type=", Q, type, Q, ">\n">>

MenuLine(m) == <<"<menu name=", Q, m, Q, ">\n">>

OptionLine(param, value) ==
    <<"<option name=", Q, param, Q, " value=", Q, value, Q, "/>\n">>

ValueLine(param, row, value) ==
    <<"<value name=", Q, param, Q, " row=", Q, row, Q, ">", value, "<", "/value>\n">>

DpxLines == {
    ComponentLine("X", "1", "BOP"),
    ComponentLine("Y", "2", "Current"),
    MenuLine("M"),
    OptionLine("P", "1"),
    OptionLine("P", "abc"),
    ValueLine("P", "0", "2"),
    ValueLine("V", "0", "abc"),
    ValueLine("P", "1", "5"),
    <<"</component>\n">>}

\* d.startswith(tag)
StartsWith(d, tag) ==
    /\ d # <<>>
    /\ tag = (CASE d[1] = "<component name=" -> "<component "
                [] d[1] = "<menu name=" -> "<menu "
                [] d[1] = "<option name=" -> "<option "
                [] d[1] = "<value name=" -> "<value "
                [] OTHER -> "")

\* bool(menu): None and '' are false
MenuSet(m) == m # NoValue /\ m[1] # <<>>

\* DPXComponent.__init__
DPXComponent(n, id, type) ==
    [name |-> n, component_id |-> id, component_type |-> type,
     menus |-> EmptyDict, options |-> EmptyDict]

\* DPX.__init__: read_das has read the lines; parse_dpx starts
DpxInit ==
    /\ dpx_data \in SeqsUpTo(DpxLines, MaxDpxLines)
    /\ dpx_pc = "loop"
    /\ dpx_i = 1
    /\ name = NoValue
    /\ component_type = NoValue
    /\ menu = NoValue
    /\ current_row = NoValue
    /\ components = EmptyDict
    /\ OthersIdle("dpx")

\* if d.startswith("<component "):
DpxComponentLine ==
    /\ dpx_pc = "loop"
    /\ dpx_i <= Len(dpx_data)
    /\ StartsWith(dpx_data[dpx_i], "<component ")
    /\ LET d == Split(dpx_data[dpx_i], Q) IN
       /\ name' = Some(d[2])
       /\ component_type' = Some(d[Len(d) - 1])
       /\ components' = Put(components, d[2], DPXComponent(d[2], d[4], d[Len(d) - 1]))
    /\ dpx_i' = dpx_i + 1
    /\ UNCHANGED <<dpx_data, dpx_pc, menu, current_row>>
    /\ OthersUnchanged("dpx")

\* elif d.startswith('<menu '):
DpxMenuLine ==
    /\ dpx_pc = "loop"
    /\ dpx_i <= Len(dpx_data)
    /\ StartsWith(dpx_data[dpx_i], "<menu ")
    /\ menu' = Some(Split(dpx_data[dpx_i], Q)[2])
    /\ IF name = NoValue
       THEN \* self.components[None]
            /\ dpx_pc' = "KeyError"
            /\ UNCHANGED <<dpx_i, current_row, components>>
       ELSE /\ components' =
                  [components EXCEPT ![name[1]].menus = Put(@, menu'[1], EmptyList)]
            /\ current_row' = Some(-1)
            /\ dpx_i' = dpx_i + 1
            /\ dpx_pc' = dpx_pc
    /\ UNCHANGED <<dpx_data, name, component_type>>
    /\ OthersUnchanged("dpx")

\* elif d.startswith('<option '):
DpxOptionLine ==
    /\ dpx_pc = "loop"
    /\ dpx_i <= Len(dpx_data)
    /\ StartsWith(dpx_data[dpx_i], "<option ")
    /\ LET d == Split(dpx_data[dpx_i], Q)
           param == d[2]
           value == convert_to_number(d[Len(d) - 1], FALSE, FALSE)
       IN IF value.err # "none"
          THEN dpx_pc' = value.err /\ UNCHANGED <<dpx_i, components>>
          ELSE IF name = NoValue
          THEN dpx_pc' = "KeyError" /\ UNCHANGED <<dpx_i, components>>
          ELSE /\ components' =
                     [components EXCEPT ![name[1]].options = Put(@, param, value.val)]
               /\ dpx_i' = dpx_i + 1
               /\ dpx_pc' = dpx_pc
    /\ UNCHANGED <<dpx_data, name, component_type, menu, current_row>>
    /\ OthersUnchanged("dpx")

\* the token of a <value line: d[-1].split('<')[0].replace('>', '')
ValueToken(d) == Without(Split(d[Len(d)], "<")[1], ">")

\* elif menu and d.startswith('<value '):
DpxValueLine ==
    /\ dpx_pc = "loop"
    /\ dpx_i <= Len(dpx_data)
    /\ MenuSet(menu)
    /\ StartsWith(dpx_data[dpx_i], "<value ")
    /\ LET d == Split(dpx_data[dpx_i], Q)
           param == d[2]
           value == convert_to_number(ValueToken(d), FALSE, FALSE)
           row == PyInt(d[4])
       IN IF value.err # "none"
          THEN dpx_pc' = value.err /\ UNCHANGED <<dpx_i, components, current_row>>
          ELSE IF row.err # "none"
          THEN dpx_pc' = row.err /\ UNCHANGED <<dpx_i, components, current_row>>
          ELSE IF menu[1] \notin DOMAIN components[name[1]].menus
          THEN \* the component named last has no menu of that name
               dpx_pc' = "KeyError" /\ UNCHANGED <<dpx_i, components, current_row>>
          ELSE LET rows == components[name[1]].menus[menu[1]]
                   opened == IF Some(row.val) # current_row
                             THEN Append(rows, EmptyDict) ELSE rows
               IN /\ current_row' = Some(row.val)
                  /\ components' =
                        [components EXCEPT ![name[1]].menus[menu[1]] =
                            [opened EXCEPT ![Len(opened)] = Put(@, param, value.val)]]
                  /\ dpx_i' = dpx_i + 1
                  /\ dpx_pc' = dpx_pc
    /\ UNCHANGED <<dpx_data, name, component_type, menu>>
    /\ OthersUnchanged("dpx")

\* a line no branch takes
DpxOtherLine ==
    /\ dpx_pc = "loop"
    /\ dpx_i <= Len(dpx_data)
    /\ ~StartsWith(dpx_data[dpx_i], "<component ")
    /\ ~StartsWith(dpx_data[dpx_i], "<menu ")
    /\ ~StartsWith(dpx_data[dpx_i], "<option ")
    /\ ~(MenuSet(menu) /\ StartsWith(dpx_data[dpx_i], "<value "))
    /\ dpx_i' = dpx_i + 1
    /\ UNCHANGED <<dpx_data, dpx_pc, name, component_type, menu, current_row,
                   components>>
    /\ OthersUnchanged("dpx")

\* self.data is exhausted
DpxDone ==
    /\ dpx_pc = "loop"
    /\ dpx_i > Len(dpx_data)
    /\ dpx_pc' = "done"
    /\ UNCHANGED <<dpx_data, dpx_i, name, component_type, menu, current_row,
                   components>>
    /\ OthersUnchanged("dpx")

DpxNext ==
    \/ DpxComponentLine
    \/ DpxMenuLine
    \/ DpxOptionLine
    \/ DpxValueLine
    \/ DpxOtherLine
    \/ DpxDone

SpecDpx == DpxInit /\ [][DpxNext]_vars

\* The line handled last, when there is one
DpxHandled == dpx_i > 1 /\ dpx_pc \in {"loop", "done"}

DpxLast == dpx_data[dpx_i - 1]

\* The token of the line handled last is not numeric
OptionNotNumeric ==
    /\ DpxHandled
    /\ StartsWith(DpxLast, "<option ")
    /\ PyFloat(Split(DpxLast, Q)[Len(Split(DpxLast, Q)) - 1]).err # "none"

ValueNotNumeric ==
    /\ DpxHandled
    /\ MenuSet(menu)
    /\ StartsWith(DpxLast, "<value ")
    /\ PyFloat(ValueToken(Split(DpxLast, Q))).err # "none"

\* The field the line handled last has written
OptionField == components[name[1]].options[Split(DpxLast, Q)[2]]

ValueField ==
    LET rows == components[name[1]].menus[menu[1]]
    IN rows[Len(rows)][Split(DpxLast, Q)[2]]

ANALYSIS == <<"$", "ANALYSIS">>

POSTPROCESSING == <<"$", "POSTPROCESSING">>

UNITS == <<"*", "UNITS">>

ANALYSIS_TYPE == <<"*", "ANALYSIS TYPE">>

OCEAN == <<"*", "OCEAN">>

DATABASE == <<"*", "DATABASE">>

DIRECTORY == <<"*", "DIRECTORY">>

INTERNAL_FLUID == <<"*", "INTERNAL FLUID">>

CURRENT == <<"*", "CURRENT">>

\* The `$ANALYSIS` part of a file: absent, without star sections, or with *UNITS
\* and *ANALYSIS TYPE
AnalysisParts == {
    <<>>,
    <<ANALYSIS>>,
    <<ANALYSIS, UNITS, <<"UNITS", "=", "IMPERIAL">>,
      ANALYSIS_TYPE, <<"TYPE", "=", "DRIFT">> >>}

\* one `$MODEL` with *OCEAN, *NODE, *P-Y and *HYDRODYNAMIC SETS
FullModel ==
    <<MODEL,
      OCEAN, <<"5", ",", "0">>,
      NODE, <<"1", ",", "2", ",", "0", ",", "0">>,
      P_Y, <<"SET=", "S">>, <<"1", ",", "2">>, <<"NODE=", "1">>, <<"1", ",", "2">>,
           <<"DEPTH=", "5">>, <<"5", ",", "1">>, <<"2">>,
      HYDRO_SETS, <<"SET=", "A", ",", SP, "TYPE=", "CONSTANT">>, <<"DIAMETER=", "1">>,
           <<"1", ",", "2">>, <<"SET=", "R", ",", SP, "TYPE=", "REYNOLDS">>,
           <<"OPTION=", "5">>, <<"1", ",", "2">> >>

\* The `$MODEL` part of a file: absent, a model without star sections, a full
\* model, a full model and a second one, a data line directly after `$MODEL`
ModelParts == {
    <<>>,
    <<MODEL>>,
    FullModel,
    FullModel \o <<MODEL>>,
    <<MODEL, <<"1", ",", "2">> >>}

\* A `$LOAD CASE` with *DIRECTORY and *INTERNAL FLUID
PlainLoadCase ==
    <<LOAD_CASE, DIRECTORY, <<"DIRECTORY=", Q, "lc1", Q>>, INTERNAL_FLUID>>

\* The `$LOAD CASE` part of a file
LoadCaseParts == {
    <<>>,
    <<LOAD_CASE>>,
    <<LOAD_CASE, DIRECTORY, <<"DIRECTORY=", Q, "lc1", Q>> >>,
    PlainLoadCase,
    PlainLoadCase \o <<CURRENT, <<"TYPE=UNIFORM">> >>,
    PlainLoadCase \o <<CURRENT, <<"TYPE=PIECEWISE LINEAR", ",", "DESCENDING">>,
                       <<"0", ",", "1", ",", "0">>, <<"5", ",", "5", ",", "2">> >>,
    PlainLoadCase \o <<CURRENT, <<"TYPE=PIECEWISE LINEAR">>,
                       <<"0", ",", "1", ",", "0">>, <<"5", ",", "5", ",", "2">> >>,
    PlainLoadCase \o PlainLoadCase}

\* The files: self.data after read_das_file
CtorFiles ==
    {a \o m \o l : a \in AnalysisParts, m \in ModelParts, l \in LoadCaseParts}

\* __init__ up to and including read_das_file
CtorInit ==
    /\ data \in CtorFiles
    /\ das_i = 1
    /\ das_pc = "parse"
    /\ dollar_section = HEADERS
    /\ star_section = HEADERS
    /\ models = EmptyDict
    /\ no_models = 0
    /\ load_cases = EmptyDict
    /\ no_load_cases = 0
    /\ das_data = Put(EmptyDict, HEADERS, Put(EmptyDict, HEADERS, EmptyList))
    /\ ctor_pc = "parse_das_file_data"
    /\ units = NoValue
    /\ length_unit = NoValue
    /\ analysis_type = NoValue
    /\ water_depth = NoValue
    /\ database_start = NoValue
    /\ soil_sum = 0
    /\ lc_i = 0
    /\ load_case_summary = EmptyDict
    /\ errors = EmptyList
    /\ HydroIdle
    /\ SoilIdle
    /\ OthersIdle("ctor")

\* text in d, for a text of several tokens
ContainsText(d, text) ==
    \E i \in 1..(Len(d) - Len(text) + 1) : SubSeq(d, i, i + Len(text) - 1) = text

\* the value of `units` after the loop over *UNITS: d.split('=')[1].strip() of the
\* last line holding 'UNITS='
RECURSIVE LastAssigned(_, _, _)
LastAssigned(lines, k, before) ==
    IF lines = <<>> THEN before
    ELSE LastAssigned(Tail(lines), k,
                      IF ContainsText(Head(lines), <<k, "=">>)
                      THEN Some(Strip(Split(Head(lines), "=")[2]))
                      ELSE before)

\* self.units_dict[self.units.lower()]['length']
LengthUnit(u) ==
    CASE LowerAll(u) = <<"imperial">> -> Ok(<<"ft">>)
      [] LowerAll(u) = <<"metric">> -> Ok(<<"m">>)
      [] OTHER -> Raise("KeyError")

\* parse_das_file_data has returned, or has raised
CtorParsed ==
    /\ ctor_pc = "parse_das_file_data"
    /\ das_pc \in {"done", "KeyError"}
    /\ ctor_pc' = IF das_pc = "done" THEN "get_units" ELSE das_pc
    /\ UNCHANGED <<units, length_unit, analysis_type, water_depth, database_start,
                   soil_sum, lc_i, load_case_summary, errors>>
    /\ OthersUnchanged("ctor")

\* self.get_units()
CtorGetUnits ==
    /\ ctor_pc = "get_units"
    /\ units' = IF ANALYSIS \in DOMAIN das_data /\ UNITS \in DOMAIN das_data[ANALYSIS]
                THEN LastAssigned(das_data[ANALYSIS][UNITS], "UNITS", units)
                ELSE units
    /\ IF units' # NoValue /\ units'[1] # <<>>
       THEN IF LengthUnit(units'[1]).err = "none"
            THEN /\ length_unit' = Some(LengthUnit(units'[1]).val)
                 /\ ctor_pc' = "get_analysis_type"
            ELSE /\ ctor_pc' = LengthUnit(units'[1]).err
                 /\ UNCHANGED length_unit
       ELSE /\ ctor_pc' = "get_analysis_type"
            /\ UNCHANGED length_unit
    /\ errors' = IF units' # NoValue /\ units'[1] # <<>> THEN errors
                 ELSE Append(errors, "Units not found")
    /\ UNCHANGED <<analysis_type, water_depth, database_start, soil_sum, lc_i,
                   load_case_summary>>
    /\ OthersUnchanged("ctor")

\* self.get_analysis_type()
CtorGetAnalysisType ==
    /\ ctor_pc = "get_analysis_type"
    /\ IF ANALYSIS \notin DOMAIN das_data
       THEN \* self.das_data['$ANALYSIS']
            ctor_pc' = "KeyError" /\ UNCHANGED analysis_type
       ELSE /\ analysis_type' =
                  IF ANALYSIS_TYPE \in DOMAIN das_data[ANALYSIS]
                  THEN LastAssigned(das_data[ANALYSIS][ANALYSIS_TYPE], "TYPE",
                                    analysis_type)
                  ELSE analysis_type
            /\ ctor_pc' = "process_water_depth"
    /\ UNCHANGED <<units, length_unit, water_depth, database_start, soil_sum, lc_i,
                   load_case_summary, errors>>
    /\ OthersUnchanged("ctor")

\* process_water_depth(model=1): float(self.models[model]['*OCEAN'][0].split(',')[0])
process_water_depth ==
    IF 1 \notin DOMAIN models THEN Raise("KeyError")
    ELSE IF OCEAN \notin DOMAIN models[1] THEN Ok(NoValue)
    ELSE LET first == Item(models[1][OCEAN], 0) IN
         IF first.err # "none" THEN first
         ELSE LET x == PyFloat(Split(first.val, ",")[1]) IN
              IF x.err # "none" THEN x ELSE Ok(Some(x.val))

\* self.water_depth = self.process_water_depth()
CtorProcessWaterDepth ==
    /\ ctor_pc = "process_water_depth"
    /\ IF process_water_depth.err = "none"
       THEN water_depth' = process_water_depth.val /\ ctor_pc' = "get_star_database"
       ELSE ctor_pc' = process_water_depth.err /\ UNCHANGED water_depth
    /\ UNCHANGED <<units, length_unit, analysis_type, database_start, soil_sum, lc_i,
                   load_case_summary, errors>>
    /\ OthersUnchanged("ctor")

\* get_star_database: the value of self.database_start, or the exception
get_star_database ==
    IF POSTPROCESSING \in DOMAIN das_data
       /\ DATABASE \in DOMAIN das_data[POSTPROCESSING]
    THEN LET second == Item(das_data[POSTPROCESSING][DATABASE], 1) IN
         IF second.err # "none" THEN second
         ELSE IF Contains(second.val, ",")
         THEN LET x == PyFloat(Split(second.val, ",")[1]) IN
              IF x.err # "none" THEN x ELSE Ok(Some(x.val))
         ELSE Ok(database_start)
    ELSE Ok(database_start)

\* self.get_star_database()
CtorGetStarDatabase ==
    /\ ctor_pc = "get_star_database"
    /\ IF get_star_database.err = "none"
       THEN database_start' = get_star_database.val /\ ctor_pc' = "process_soil"
       ELSE ctor_pc' = get_star_database.err /\ UNCHANGED database_start
    /\ UNCHANGED <<units, length_unit, analysis_type, water_depth, soil_sum, lc_i,
                   load_case_summary, errors>>
    /\ OthersUnchanged("ctor")

\* self.process_soil() is called
CtorProcessSoil ==
    /\ ctor_pc = "process_soil"
    /\ soil_pc = "idle"
    /\ soil_pc' = "call"
    /\ soil_idx' = 1
    /\ depth' = NoValue
    /\ UNCHANGED p_y_curves
    /\ OthersUnchanged("soil")

\* the sum of a list of numbers
RECURSIVE SumList(_)
SumList(xs) == IF xs = <<>> THEN 0 ELSE Head(xs) + SumList(Tail(xs))

\* sum_all_soil_values: depth + sum(p) + sum(y), over the depths in `keys`
RECURSIVE SoilSum(_)
SoilSum(keys) ==
    IF keys = {} THEN 0
    ELSE LET d == CHOOSE x \in keys : TRUE IN
         d + SumList(p_y_curves[d].p) + SumList(p_y_curves[d].y)
           + SoilSum(keys \ {d})

\* process_soil has returned or raised; self.sum_all_soil_values()
CtorSumAllSoilValues ==
    /\ ctor_pc = "process_soil"
    /\ soil_pc \notin {"idle", "call", "loop"}
    /\ IF soil_pc = "done"
       THEN /\ soil_sum' = soil_sum + SoilSum(DOMAIN p_y_curves)
            /\ ctor_pc' = "gen_load_case_summary"
            /\ lc_i' = 1
       ELSE /\ ctor_pc' = soil_pc
            /\ UNCHANGED <<soil_sum, lc_i>>
    /\ UNCHANGED <<units, length_unit, analysis_type, water_depth, database_start,
                   load_case_summary, errors>>
    /\ OthersUnchanged("ctor")

\* the name after the loop over *DIRECTORY
RECURSIVE LoadCaseName(_, _)
LoadCaseName(lines, before) ==
    IF lines = <<>> THEN before
    ELSE LoadCaseName(Tail(lines),
            IF Contains(Head(lines), "DIRECTORY=")
            THEN Str(Without(Strip(Split(Head(lines), "DIRECTORY=")[2]), Q))
            ELSE before)

\* The fields set before the loop over *INTERNAL FLUID (no *TIME section)
SummaryToTime(lc) ==
    ("Name" :> LoadCaseName(lc[DIRECTORY], PyNone))
    @@ ("Database Start" :> database_start)
    @@ ("Soil Sum" :> soil_sum)
    @@ [f \in {"Time Type", "Ramp", "Duration"} |-> PyNone]

\* The fields set from there to the *CURRENT block (no line 'SET=_InternalFluid',
\* no *TOP TENSION, *WAVE, *WIND section)
SummaryToWind ==
    ("Internal Fluid Count" :> 0)
    @@ ("Top Tension" :> 0)
    @@ [f \in {"Wave Type", "Wave Dir", "Hs", "Tp", "Wave Amplitude", "Wave Period",
               "Wind Speed", "Wind Dir"} |-> PyNone]

\* index after `for index, d in enumerate(lines): if 'TYPE=PIECEWISE LINEAR' in d:
\* ... break` (0-based; the last index when no line breaks the loop)
CurrentIndex(lines) ==
    LET hits == {i \in DOMAIN lines : Contains(lines[i], "TYPE=PIECEWISE LINEAR")}
    IN IF hits = {} THEN Len(lines) - 1
       ELSE (CHOOSE i \in hits : \A j \in hits : i <= j) - 1

\* current_specification
CurrentSpec(lines) ==
    IF \A i \in DOMAIN lines : ~Contains(lines[i], "TYPE=PIECEWISE LINEAR")
    THEN PyNone
    ELSE IF Contains(lines[CurrentIndex(lines) + 1], "DESCENDING")
    THEN Str(<<"DESCENDING">>) ELSE Str(<<"ASCENDING">>)

\* d.count(',')
CountCommas(d) == Len(SelectSeq(d, LAMBDA t : t = ","))

\* current_profile: the lines after index that hold comma_count commas, split
CurrentProfile(lines) ==
    LET after == SubSeq(lines, CurrentIndex(lines) + 2, Len(lines))
    IN [k \in DOMAIN SelectSeq(after, LAMBDA d : CountCommas(d) = 2) |->
           Split(SelectSeq(after, LAMBDA d : CountCommas(d) = 2)[k], ",")]

\* The fields of the *CURRENT block, or the exception it raises
CurrentFields(lc) ==
    IF CURRENT \notin DOMAIN lc
    THEN Ok(("Current Type" :> PyNone) @@ ("Current Spec" :> PyNone)
            @@ ("Current Profile" :> <<>>)
            @@ ("Average Current" :> [num |-> 0, den |-> 1])
            @@ ("Surface Current" :> 0)
            @@ ("Surface Current Direction" :> PyNone))
    ELSE LET lines == lc[CURRENT]
             spec == CurrentSpec(lines)
             profile == CurrentProfile(lines)
             speeds == [k \in DOMAIN profile |-> PyFloat(profile[k][2])]
             dirs == [k \in DOMAIN profile |-> PyFloat(profile[k][3])]
         IN IF \E k \in DOMAIN profile : speeds[k].err # "none" \/ dirs[k].err # "none"
            THEN Raise("ValueError")
            ELSE IF profile = <<>>
            THEN IF spec = Str(<<"ASCENDING">>) THEN Raise("IndexError")
                 ELSE Raise("ZeroDivisionError")
            ELSE Ok(("Current Type" :> (IF spec = PyNone THEN PyNone
                                        ELSE Str(<<"PIECEWISE LINEAR">>)))
                    @@ ("Current Spec" :> spec)
                    @@ ("Current Profile" :> profile)
                    @@ ("Average Current" :>
                          [num |-> SumList([k \in DOMAIN speeds |-> speeds[k].val]),
                           den |-> Len(profile)])
                    @@ ("Surface Current" :>
                          IF spec = Str(<<"DESCENDING">>) THEN speeds[1].val
                          ELSE speeds[Len(profile)].val)
                    @@ ("Surface Current Direction" :>
                          IF spec = Str(<<"DESCENDING">>) THEN Num(dirs[1].val)
                          ELSE Num(dirs[Len(profile)].val)))

\* The fields set after the *CURRENT block (no *DRIFT-OFF LIMITS, *RAO,
\* *TIME,DISCONNECT, *OFFSET, *DAMPING section)
SummaryToDamping ==
    [f \in {"EDS", "TJ Limit", "Ten Limit", "UFJ Limit", "LFJ Limit", "WH BM Limit",
            "Riser VMS Limit", "Cond VMS Limit", "RAO", "RAO Type",
            "DISCONNECT TIME", "PHASE", "PERIODS B4 Disconnect", "BULK MODULUS",
            "Fanning Friction", "Discharge Coeff. Out.", "Discharge Coeff. In.",
            "Atmospheric Pressure", "Offset", "Offset Y", "Offset Z"} |-> PyNone]
    @@ ("Offset Option" :> Str(<<"dist">>))
    @@ ("Damping" :> Str(<<"No Damping">>))

\* The star sections gen_load_case_summary reads
LoadCaseSections ==
    {DIRECTORY, INTERNAL_FLUID, CURRENT}

\* gen_load_case_summary: one turn of `for l in self.load_cases.keys()`
CtorLoadCase ==
    /\ ctor_pc = "gen_load_case_summary"
    /\ lc_i <= no_load_cases
    /\ DOMAIN load_cases[lc_i] \subseteq LoadCaseSections
    /\ LET lc == load_cases[lc_i] IN
       IF DIRECTORY \notin DOMAIN lc
       THEN \* self.load_cases[l]['*DIRECTORY']
            /\ load_case_summary' = Put(load_case_summary, lc_i, EmptyDict)
            /\ ctor_pc' = "KeyError"
            /\ UNCHANGED lc_i
       ELSE IF INTERNAL_FLUID \notin DOMAIN lc
       THEN \* self.load_cases[l]['*INTERNAL FLUID']
            /\ load_case_summary' = Put(load_case_summary, lc_i, SummaryToTime(lc))
            /\ ctor_pc' = "KeyError"
            /\ UNCHANGED lc_i
       ELSE IF CurrentFields(lc).err # "none"
       THEN /\ load_case_summary' =
                  Put(load_case_summary, lc_i, SummaryToTime(lc) @@ SummaryToWind)
            /\ ctor_pc' = CurrentFields(lc).err
            /\ UNCHANGED lc_i
       ELSE /\ load_case_summary' =
                  Put(load_case_summary, lc_i,
                      SummaryToTime(lc) @@ SummaryToWind @@ CurrentFields(lc).val
                        @@ SummaryToDamping)
            /\ lc_i' = lc_i + 1
            /\ ctor_pc' = ctor_pc
    /\ UNCHANGED <<units, length_unit, analysis_type, water_depth, database_start,
                   soil_sum, errors>>
    /\ OthersUnchanged("ctor")

\* gen_load_case_summary returns; self.process_hydro_sets() is called
CtorProcessHydroSets ==
    /\ ctor_pc = "gen_load_case_summary"
    /\ lc_i > no_load_cases
    /\ ctor_pc' = "process_hydro_sets"
    /\ h_pc' = "models"
    /\ h_model' = 1
    /\ h_i' = 1
    /\ UNCHANGED <<hydro_sets, df_hydro_sets, option, diameter, hydro_type, set_name>>
    /\ UNCHANGED <<units, length_unit, analysis_type, water_depth, database_start,
                   soil_sum, lc_i, load_case_summary, errors>>
    /\ AllUnchangedBut({"ctor", "hydro"})

\* handle_errors: the lines printed, none for an empty list (the count line
\* `N Errors Occurred!` is left out, N being the length of what follows)
Printed(errs) == errs

\* process_hydro_sets has returned or raised; self.handle_errors()
CtorHandleErrors ==
    /\ ctor_pc = "process_hydro_sets"
    /\ h_pc \notin {"idle", "models", "rows"}
    /\ ctor_pc' = IF h_pc = "done" THEN "constructed" ELSE h_pc
    /\ reported' = IF h_pc = "done" THEN Printed(errors) ELSE reported
    /\ UNCHANGED <<units, length_unit, analysis_type, water_depth, database_start,
                   soil_sum, lc_i, load_case_summary, errors>>
    /\ AllUnchangedBut({"ctor", "report"})

CtorNext ==
    \/ DasNext
    \/ CtorParsed
    \/ CtorGetUnits
    \/ CtorGetAnalysisType
    \/ CtorProcessWaterDepth
    \/ CtorGetStarDatabase
    \/ CtorProcessSoil
    \/ SoilNext
    \/ CtorSumAllSoilValues
    \/ CtorLoadCase
    \/ CtorProcessHydroSets
    \/ HydroNext
    \/ CtorHandleErrors

SpecCtor == CtorInit /\ [][CtorNext]_vars

\* The exceptions a step of the constructor can leave with
Exceptions ==
    {"KeyError", "IndexError", "ValueError", "ZeroDivisionError", "AttributeError",
     "UnboundLocalError"}

\* C11 (as claimed): on a file that parse_das_file_data accepts, in which every
\* value present is well formed and only optional sections are absent, no step of
\* the constructor raises: the construction goes on to its end.
C11_ConstructionCompletes ==
    das_pc = "done" => ctor_pc \notin Exceptions

(***************************************************************************)
(* TabFile                                                                 *)
(* A local that is not bound yet is <<>>; a bound one is <<v>>.            *)
(***************************************************************************)
MaxTabLines == 4

MaxTabCalls == 1

TAB == "\t"

NL == "\n"

\* Lines of a .tab file, as f.readlines() returns them
TabLines == {
    <<"Table No.", SP, "1", " - ", "A", NL>>,
    <<"Table No.", SP, "2", " - ", "B", NL>>,
    <<"X-Axis", ":", SP, "Len", NL>>,
    <<"X-Units", ":", SP, "m", NL>>,
    <<"Plot Data", ":", NL>>,
    <<"Plot Data", ":", SP, "Series", SP, "1", NL>>,
    <<"Plot Data", ":", SP, "S", NL>>,
    <<"1", TAB, "2", NL>>,
    <<"5", NL>>}

\* TabFile.__init__ up to the call of parse_contents
TabInit ==
    /\ contents \in SeqsUpTo(TabLines, MaxTabLines)
    /\ tab_pc = "parse_contents"
    /\ tab_idx = 1
    /\ table = NoValue
    /\ series = NoValue
    /\ series_count = NoValue
    /\ x_axis_label = NoValue
    /\ y_axis_label = NoValue
    /\ x_units = NoValue
    /\ y_units = NoValue
    /\ tab_file_data = EmptyDict
    /\ riser_length = NoValue
    /\ tab_calls = 0
    /\ tab_result = NoValue
    /\ OthersIdle("tab")

\* line[0:n] == '<word>:'
HasPrefix(line, word) == Len(line) >= 2 /\ line[1] = word /\ line[2] = ":"

\* line.split(':')[1].strip()
AfterColon(line) == Strip(Split(line, ":")[2])

\* str(n) of a small positive int
IntText(n) == <<"1", "2", "3", "4", "5", "6", "7", "8", "9">>[n]

\* f'Series {series_count}'
SeriesKey(n) == <<"Series", SP, IntText(n)>>

\* f'{x_axis_label} ({x_units})'
LabelWithUnits(label, u) == label \o <<" (">> \o u \o <<")">>

\* {'X': [], 'Y': [], 'X Label': ..., 'Y Label': ..., 'X Units': ..., 'Y Units': ...}
NewSeries(xl, yl, xu, yu) ==
    ("X" :> EmptyList) @@ ("Y" :> EmptyList) @@ ("X Label" :> xl)
    @@ ("Y Label" :> yl) @@ ("X Units" :> xu) @@ ("Y Units" :> yu)

\* series_count after a `Table No.` line
SeriesCountAtTable_Kept(count) == IF count = NoValue THEN Some(0) ELSE count

SeriesCountAtTable(count) == Some(0)

\* if 'Table No.' in line:
TabTableLine ==
    /\ tab_pc = "parse_contents"
    /\ tab_idx <= Len(contents)
    /\ Contains(contents[tab_idx], "Table No.")
    /\ table' = Some(Without(contents[tab_idx], NL))
    /\ tab_file_data' = Put(tab_file_data, Without(contents[tab_idx], NL), EmptyDict)
    /\ series_count' = SeriesCountAtTable(series_count)
    /\ x_axis_label' = Some(<<>>)
    /\ y_axis_label' = Some(<<>>)
    /\ x_units' = Some(<<>>)
    /\ y_units' = Some(<<>>)
    /\ tab_idx' = tab_idx + 1
    /\ UNCHANGED <<contents, tab_pc, series, riser_length, tab_calls, tab_result>>
    /\ OthersUnchanged("tab")

\* the try block: the series dict after the two appends, of which the second, the
\* first or both may fail
AfterAppends(sd, line) ==
    LET fields == Split(line, TAB)
        x == PyFloat(fields[1])
        y == IF Len(fields) >= 2 THEN PyFloat(fields[2]) ELSE Raise("IndexError")
    IN IF x.err # "none" THEN sd
       ELSE IF y.err # "none" THEN Put(sd, "X", Append(sd["X"], x.val))
       ELSE Put(Put(sd, "X", Append(sd["X"], x.val)), "Y", Append(sd["Y"], y.val))

\* elif table: the label tests, the `Plot Data:` test and the try block
TabLine ==
    /\ tab_pc = "parse_contents"
    /\ tab_idx <= Len(contents)
    /\ ~Contains(contents[tab_idx], "Table No.")
    /\ table # NoValue
    /\ LET line == contents[tab_idx]
           xl == IF HasPrefix(line, "X-Axis") THEN AfterColon(line)
                 ELSE x_axis_label[1]
           yl == IF HasPrefix(line, "Y-Axis") THEN AfterColon(line)
                 ELSE y_axis_label[1]
           xu == IF HasPrefix(line, "X-Units") THEN AfterColon(line) ELSE x_units[1]
           yu == IF HasPrefix(line, "Y-Units") THEN AfterColon(line) ELSE y_units[1]
           xlu == IF HasPrefix(line, "X-Units") /\ xu # <<>>
                  THEN LabelWithUnits(xl, xu) ELSE xl
           ylu == IF HasPrefix(line, "Y-Units") /\ yu # <<>>
                  THEN LabelWithUnits(yl, yu) ELSE yl
           plot == HasPrefix(line, "Plot Data")
           renamed == plot /\ (AfterColon(line) = <<>>
                               \/ AfterColon(line) \in DOMAIN tab_file_data[table[1]])
           count == IF renamed THEN Some(series_count[1] + 1) ELSE series_count
           name1 == IF ~plot THEN series
                    ELSE IF renamed THEN Some(SeriesKey(count[1]))
                    ELSE Some(AfterColon(line))
           opened == IF plot
                     THEN Put(tab_file_data[table[1]], name1[1],
                              NewSeries(xlu, ylu, xu, yu))
                     ELSE tab_file_data[table[1]]
           filled == IF name1 # NoValue /\ name1[1] \in DOMAIN opened
                     THEN Put(opened, name1[1], AfterAppends(opened[name1[1]], line))
                     ELSE opened
       IN /\ x_axis_label' = Some(xlu)
          /\ y_axis_label' = Some(ylu)
          /\ x_units' = Some(xu)
          /\ y_units' = Some(yu)
          /\ series_count' = count
          /\ series' = name1
          /\ tab_file_data' = Put(tab_file_data, table[1], filled)
    /\ tab_idx' = tab_idx + 1
    /\ UNCHANGED <<contents, tab_pc, table, riser_length, tab_calls, tab_result>>
    /\ OthersUnchanged("tab")

\* a line before the first `Table No.` line: neither branch is taken
TabSkipLine ==
    /\ tab_pc = "parse_contents"
    /\ tab_idx <= Len(contents)
    /\ ~Contains(contents[tab_idx], "Table No.")
    /\ table = NoValue
    /\ tab_idx' = tab_idx + 1
    /\ UNCHANGED <<contents, tab_pc, table, series, series_count, x_axis_label,
                   y_axis_label, x_units, y_units, tab_file_data, riser_length,
                   tab_calls, tab_result>>
    /\ OthersUnchanged("tab")

\* parse_contents returns; process_automated_postprocessing on tables that are
\* none of the two envelope tables: table.split(' - ')[1] of every table, and the
\* maxima and riser_length stay None
TabPostprocess ==
    /\ tab_pc = "parse_contents"
    /\ tab_idx > Len(contents)
    /\ tab_pc' = IF \A t \in DOMAIN tab_file_data : Len(Split(t, " - ")) >= 2
                 THEN "constructed" ELSE "IndexError"
    /\ UNCHANGED <<contents, tab_idx, table, series, series_count, x_axis_label,
                   y_axis_label, x_units, y_units, tab_file_data, riser_length,
                   tab_calls, tab_result>>
    /\ OthersUnchanged("tab")

\* offset_elevations(table, offset, axis) on a constructed TabFile
offset_elevations(t, offset, axis) ==
    [k \in DOMAIN tab_file_data[t] |->
        Put(tab_file_data[t][k], axis,
            [i \in DOMAIN tab_file_data[t][k][axis] |->
                tab_file_data[t][k][axis][i] + offset])]

TabOffsetElevations ==
    /\ tab_pc = "constructed"
    /\ tab_calls < MaxTabCalls
    /\ \E t \in DOMAIN tab_file_data, axis \in {"X", "Y"} :
          tab_file_data' = Put(tab_file_data, t, offset_elevations(t, 1, axis))
    /\ tab_calls' = tab_calls + 1
    /\ UNCHANGED <<contents, tab_pc, tab_idx, table, series, series_count,
                   x_axis_label, y_axis_label, x_units, y_units, riser_length,
                   tab_result>>
    /\ OthersUnchanged("tab")

\* get_first_series(table) on a constructed TabFile:
\* list(self.tab_file_data[table].keys())[0]; the dict keeps no order here, so
\* any key stands for the first
TabGetFirstSeries ==
    /\ tab_pc = "constructed"
    /\ tab_calls < MaxTabCalls
    /\ \E t \in DOMAIN tab_file_data :
          IF tab_file_data[t] = EmptyDict
          THEN tab_result' = Some(<<"IndexError">>)
          ELSE \E k \in DOMAIN tab_file_data[t] : tab_result' = Some(k)
    /\ tab_calls' = tab_calls + 1
    /\ UNCHANGED <<contents, tab_pc, tab_idx, table, series, series_count,
                   x_axis_label, y_axis_label, x_units, y_units, tab_file_data,
                   riser_length>>
    /\ OthersUnchanged("tab")

TabNext ==
    \/ TabTableLine
    \/ TabLine
    \/ TabSkipLine
    \/ TabPostprocess
    \/ TabOffsetElevations
    \/ TabGetFirstSeries

SpecTab == TabInit /\ [][TabNext]_vars

\* `Plot Data:` line with an empty title
EmptyTitle(line) == HasPrefix(line, "Plot Data") /\ AfterColon(line) = <<>>

IsTableLine(line) == Contains(line, "Table No.")

\* is line i inside a table, i.e. after some `Table No.` line
InTable(i) == \E j \in 1..i : IsTableLine(contents[j])

RECURSIVE UsedKeys(_)
RECURSIVE Renames(_)
\* is line i a `Plot Data:` line of a table whose title is empty or already used
Renamed(i) ==
    /\ InTable(i)
    /\ ~IsTableLine(contents[i])
    /\ HasPrefix(contents[i], "Plot Data")
    /\ (AfterColon(contents[i]) = <<>> \/ AfterColon(contents[i]) \in UsedKeys(i - 1))

\* the number of renamed `Plot Data:` lines among lines 1..i since the last
\* `Table No.` line
Renames(i) ==
    IF i = 0 \/ IsTableLine(contents[i]) THEN 0
    ELSE IF Renamed(i) THEN Renames(i - 1) + 1
    ELSE Renames(i - 1)

\* the series keys of the current table after lines 1..i
UsedKeys(i) ==
    IF i = 0 \/ IsTableLine(contents[i]) THEN {}
    ELSE IF ~(InTable(i) /\ HasPrefix(contents[i], "Plot Data")) THEN UsedKeys(i - 1)
    ELSE IF Renamed(i) THEN UsedKeys(i - 1) \cup {SeriesKey(Renames(i))}
    ELSE UsedKeys(i - 1) \cup {AfterColon(contents[i])}

\* C14: while parse_contents runs, the line just handled, when it is a `Plot Data:`
\* line of a table with an empty or already used title, has received the key
\* `Series N`, N being the number of such lines since the last `Table No.` line
\* (so N starts at 1 in every table); two consecutive empty-title lines get keys
\* `Series k` and `Series k+1`
C14_SeriesNumbering ==
    (tab_pc = "parse_contents" /\ tab_idx >= 2 /\ Renamed(tab_idx - 1)) =>
        /\ series = Some(SeriesKey(Renames(tab_idx - 1)))
        /\ SeriesKey(Renames(tab_idx - 1)) \in DOMAIN tab_file_data[table[1]]
        /\ Renames(tab_idx - 1) >= 1
        /\ (tab_idx >= 3 /\ IsTableLine(contents[tab_idx - 2])) =>
              series = Some(SeriesKey(1))
        /\ (tab_idx >= 3 /\ EmptyTitle(contents[tab_idx - 1])
            /\ EmptyTitle(contents[tab_idx - 2]) /\ Renamed(tab_idx - 2)) =>
              {SeriesKey(Renames(tab_idx - 1) - 1), SeriesKey(Renames(tab_idx - 1))}
                  \subseteq DOMAIN tab_file_data[table[1]]

\* two consecutive empty-title lines after a `Table No.` line gave `Series 1` and
\* `Series 2`
C14_Witness ==
    /\ tab_pc = "parse_contents"
    /\ tab_idx = 4
    /\ IsTableLine(contents[1])
    /\ EmptyTitle(contents[2])
    /\ EmptyTitle(contents[3])
    /\ DOMAIN tab_file_data[table[1]] = {SeriesKey(1), SeriesKey(2)}

\* the counter restarted in a second table
C14_WitnessRestart ==
    /\ tab_pc = "parse_contents"
    /\ tab_idx = 5
    /\ IsTableLine(contents[1])
    /\ EmptyTitle(contents[2])
    /\ IsTableLine(contents[3])
    /\ contents[3] # contents[1]
    /\ EmptyTitle(contents[4])
    /\ series = Some(SeriesKey(1))

\* C13: no method called on a constructed TabFile changes the parsed record
\* tab_file_data
C13_RecordReadOnly ==
    [][tab_pc = "constructed" => tab_file_data' = tab_file_data]_vars

(***************************************************************************)
(* Constructing a reader a second time on the same file                    *)
(* The second object gets its fields from the constructor; the locals of   *)
(* the parsing function are unbound again.                                 *)
(***************************************************************************)
\* setup_variables: self.no_models = 0
SetupNoModels_Kept(old) == old

SetupNoModels(old) == 0

\* the first DasFile is parsed (or has raised); DasFile(...) on the same file
DasAgain ==
    /\ parse_no = 0
    /\ das_pc \notin {"idle", "parse"}
    /\ first_record' = <<das_pc, models, load_cases, das_data>>
    /\ parse_no' = 1
    /\ das_i' = 1
    /\ das_pc' = "parse"
    /\ dollar_section' = HEADERS
    /\ star_section' = HEADERS
    /\ models' = EmptyDict
    /\ no_models' = SetupNoModels(no_models)
    /\ load_cases' = EmptyDict
    /\ no_load_cases' = 0
    /\ das_data' = Put(EmptyDict, HEADERS, Put(EmptyDict, HEADERS, EmptyList))
    /\ UNCHANGED data
    /\ AllUnchangedBut({"das", "twice"})

\* the first TabFile is constructed (or has raised); TabFile(...) on the same file
TabAgain ==
    /\ parse_no = 0
    /\ tab_pc \notin {"idle", "parse_contents"}
    /\ tab_calls = 0
    /\ first_record' = <<tab_pc, tab_file_data>>
    /\ parse_no' = 1
    /\ tab_pc' = "parse_contents"
    /\ tab_idx' = 1
    /\ table' = NoValue
    /\ series' = NoValue
    /\ series_count' = NoValue
    /\ x_axis_label' = NoValue
    /\ y_axis_label' = NoValue
    /\ x_units' = NoValue
    /\ y_units' = NoValue
    /\ tab_file_data' = EmptyDict
    /\ riser_length' = NoValue
    /\ UNCHANGED <<contents, tab_calls, tab_result>>
    /\ AllUnchangedBut({"tab", "twice"})

\* the first DPX is parsed (or has raised); DPX(...) on the same file
DpxAgain ==
    /\ parse_no = 0
    /\ dpx_pc \notin {"idle", "loop"}
    /\ first_record' = <<dpx_pc, components>>
    /\ parse_no' = 1
    /\ dpx_pc' = "loop"
    /\ dpx_i' = 1
    /\ name' = NoValue
    /\ component_type' = NoValue
    /\ menu' = NoValue
    /\ current_row' = NoValue
    /\ components' = EmptyDict
    /\ UNCHANGED dpx_data
    /\ AllUnchangedBut({"dpx", "twice"})

TwiceNext ==
    \/ DasNext
    \/ DasAgain
    \/ TabTableLine
    \/ TabLine
    \/ TabSkipLine
    \/ TabPostprocess
    \/ TabAgain
    \/ DpxNext
    \/ DpxAgain

SpecTwice == (DasInit \/ TabInit \/ DpxInit) /\ [][TwiceNext]_vars

C12_WitnessTab ==
    /\ parse_no = 1
    /\ tab_pc = "constructed"
    /\ \E t \in DOMAIN tab_file_data : DOMAIN tab_file_data[t] = {SeriesKey(1), <<"S">>}

\* a second DPX with a value row is parsed
C12_WitnessDpx ==
    /\ parse_no = 1
    /\ dpx_pc = "done"
    /\ \E c \in DOMAIN components : \E m \in DOMAIN components[c].menus :
          components[c].menus[m] # EmptyList

(***************************************************************************)
(* CommonMds                                                               *)
(* mds_i is the 1-based position of the line being read.                   *)
(***************************************************************************)
MaxMdsLines == 5

\* Lines of a .mds file, as f.readlines() returns them
MdsLines == {
    <<"1", SP, "2", NL>>,
    <<"2", SP, "2", NL>>,
    <<"1", SP, "5", NL>>,
    <<"1", SP, "1", SP, "5", NL>>,
    <<"1", SP, "2", SP, "1", NL>>,
    <<"2", SP, "1", SP, "2", NL>>,
    <<NL>>}

\* setup_variables; read_mds_file up to f.readlines()
MdsInit ==
    /\ mds_data \in SeqsUpTo(MdsLines, MaxMdsLines)
    /\ mds_pc = "block1"
    /\ mds_i = 1
    /\ no_of_modes = NoValue
    /\ no_of_nodes = NoValue
    /\ modes = EmptyDict
    /\ OthersIdle("mds")

\* line.rstrip().split()
MdsFields(line) == Words(RStrip(line))

\* int(line[n]) and float(line[n])
IntField(fields, n) ==
    IF Item(fields, n).err # "none" THEN Raise("IndexError")
    ELSE PyInt(Item(fields, n).val)

FloatField(fields, n) ==
    IF Item(fields, n).err # "none" THEN Raise("IndexError")
    ELSE PyFloat(Item(fields, n).val)

\* BLOCK 1
MdsBlock1 ==
    /\ mds_pc = "block1"
    /\ IF mds_data = <<>>
       THEN /\ mds_pc' = "IndexError"
            /\ UNCHANGED <<no_of_modes, no_of_nodes>>
       ELSE LET line == MdsFields(mds_data[1])
                m == IntField(line, 0)
                n == IntField(line, 1)
            IN IF m.err # "none"
               THEN /\ mds_pc' = m.err
                    /\ UNCHANGED <<no_of_modes, no_of_nodes>>
               ELSE IF n.err # "none"
               THEN /\ mds_pc' = n.err
                    /\ no_of_modes' = Some(m.val)
                    /\ UNCHANGED no_of_nodes
               ELSE /\ mds_pc' = "block2"
                    /\ no_of_modes' = Some(m.val)
                    /\ no_of_nodes' = Some(n.val)
    /\ mds_i' = 2
    /\ UNCHANGED <<mds_data, modes>>
    /\ OthersUnchanged("mds")

\* {"Nat Freq rad_s": ..., "segments": [], "mode_shape": [], "mode_slope": [],
\*  "mode_curvature": []}
NewMode(freq) ==
    [nat_freq |-> freq, segments |-> EmptyList, mode_shape |-> EmptyList,
     mode_slope |-> EmptyList, mode_curvature |-> EmptyList]

\* BLOCK 2, one iteration of for i in range(1, 1 + self.no_of_modes)
MdsBlock2 ==
    /\ mds_pc = "block2"
    /\ mds_i <= 1 + no_of_modes[1]
    /\ IF mds_i > Len(mds_data)
       THEN mds_pc' = "IndexError" /\ UNCHANGED <<modes, mds_i>>
       ELSE LET line == MdsFields(mds_data[mds_i])
                freq == FloatField(line, 1)
                id == IntField(line, 0)
            IN IF freq.err # "none"
               THEN mds_pc' = freq.err /\ UNCHANGED <<modes, mds_i>>
               ELSE IF id.err # "none"
               THEN mds_pc' = id.err /\ UNCHANGED <<modes, mds_i>>
               ELSE /\ modes' = Put(modes, id.val, NewMode(freq.val))
                    /\ mds_i' = mds_i + 1
                    /\ UNCHANGED mds_pc
    /\ UNCHANGED <<mds_data, no_of_modes, no_of_nodes>>
    /\ OthersUnchanged("mds")

\* the end of BLOCK 2
MdsBlock2Done ==
    /\ mds_pc = "block2"
    /\ mds_i > 1 + no_of_modes[1]
    /\ mds_pc' = "block3"
    /\ UNCHANGED <<mds_data, mds_i, no_of_modes, no_of_nodes, modes>>
    /\ OthersUnchanged("mds")

\* the list to which a row's first append goes
SegmentsList_ModeShape == "mode_shape"

SegmentsList == "segments"

\* BLOCK 3, one iteration of for line in data[1 + self.no_of_modes:]; the first
\* append is done when the second raises
MdsBlock3 ==
    /\ mds_pc = "block3"
    /\ mds_i <= Len(mds_data)
    /\ LET line == MdsFields(mds_data[mds_i])
           id == IntField(line, 0)
           seg == FloatField(line, 1)
           val == FloatField(line, 2)
       IN IF id.err # "none"
          THEN mds_pc' = id.err /\ UNCHANGED <<modes, mds_i>>
          ELSE IF id.val \notin DOMAIN modes
          THEN mds_pc' = "KeyError" /\ UNCHANGED <<modes, mds_i>>
          ELSE IF seg.err # "none"
          THEN mds_pc' = seg.err /\ UNCHANGED <<modes, mds_i>>
          ELSE LET first == [modes EXCEPT ![id.val][SegmentsList] =
                                 Append(@, seg.val)]
               IN IF val.err # "none"
                  THEN /\ mds_pc' = val.err
                       /\ modes' = first
                       /\ UNCHANGED mds_i
                  ELSE /\ modes' = [first EXCEPT ![id.val].mode_shape =
                                        Append(@, val.val)]
                       /\ mds_i' = mds_i + 1
                       /\ UNCHANGED mds_pc
    /\ UNCHANGED <<mds_data, no_of_modes, no_of_nodes>>
    /\ OthersUnchanged("mds")

\* read_mds_file returns
MdsDone ==
    /\ mds_pc = "block3"
    /\ mds_i > Len(mds_data)
    /\ mds_pc' = "done"
    /\ UNCHANGED <<mds_data, mds_i, no_of_modes, no_of_nodes, modes>>
    /\ OthersUnchanged("mds")

MdsNext ==
    \/ MdsBlock1
    \/ MdsBlock2
    \/ MdsBlock2Done
    \/ MdsBlock3
    \/ MdsDone

SpecMds == MdsInit /\ [][MdsNext]_vars

\* the declared number of modes and of nodes: the two numbers of the first line
DeclaredModes == PyInt(MdsFields(mds_data[1])[1]).val

DeclaredNodes == PyInt(MdsFields(mds_data[1])[2]).val

\* is the file a first line `M N`, then M lines `id freq`, then rows `id seg value`
\* whose id is one of the M declared
MdsWellFormed ==
    /\ Len(mds_data) >= 1
    /\ Len(MdsFields(mds_data[1])) = 2
    /\ \A n \in 1..2 : PyInt(MdsFields(mds_data[1])[n]).err = "none"
    /\ Len(mds_data) >= 1 + DeclaredModes
    /\ \A i \in 2..(1 + DeclaredModes) :
          /\ Len(MdsFields(mds_data[i])) = 2
          /\ PyInt(MdsFields(mds_data[i])[1]).err = "none"
          /\ PyFloat(MdsFields(mds_data[i])[2]).err = "none"
    /\ \A i \in (2 + DeclaredModes)..Len(mds_data) :
          /\ Len(MdsFields(mds_data[i])) = 3
          /\ PyInt(MdsFields(mds_data[i])[1]).err = "none"
          /\ PyFloat(MdsFields(mds_data[i])[2]).err = "none"
          /\ PyFloat(MdsFields(mds_data[i])[3]).err = "none"
          /\ \E j \in 2..(1 + DeclaredModes) :
                MdsFields(mds_data[j])[1] = MdsFields(mds_data[i])[1]

\* field n of the rows from line i on that carry mode id, in file order
RECURSIVE RowFields(_, _, _)
RowFields(id, n, i) ==
    IF i > Len(mds_data) THEN <<>>
    ELSE IF PyInt(MdsFields(mds_data[i])[1]).val = id
    THEN <<PyFloat(MdsFields(mds_data[i])[n]).val>> \o RowFields(id, n, i + 1)
    ELSE RowFields(id, n, i + 1)

\* C15: a well-formed file is read without an exception, and once it is read
\* no_of_modes = M, no_of_nodes = N, the modes are the declared ids, each with the
\* frequency of its (last) declaration line, and the segments and mode_shape of a
\* mode are the seg and value fields of the rows carrying its id, in file order
C15_MdsRecord ==
    MdsWellFormed =>
        /\ mds_pc \notin {"IndexError", "ValueError", "KeyError"}
        /\ mds_pc = "done" =>
              /\ no_of_modes = Some(DeclaredModes)
              /\ no_of_nodes = Some(DeclaredNodes)
              /\ DOMAIN modes = {PyInt(MdsFields(mds_data[i])[1]).val :
                                    i \in 2..(1 + DeclaredModes)}
              /\ \A i \in 2..(1 + DeclaredModes) :
                    LET id == PyInt(MdsFields(mds_data[i])[1]).val IN
                    (\A j \in (i + 1)..(1 + DeclaredModes) :
                        PyInt(MdsFields(mds_data[j])[1]).val # id) =>
                        /\ modes[id].nat_freq = PyFloat(MdsFields(mds_data[i])[2]).val
                        /\ modes[id].segments = RowFields(id, 2, 2 + DeclaredModes)
                        /\ modes[id].mode_shape = RowFields(id, 3, 2 + DeclaredModes)

\* two modes and two nodes are declared, and mode 1 has frequency 5.0, segments
\* [1.0, 2.0] and mode_shape [5.0, 1.0]
C15_Witness ==
    /\ mds_pc = "done"
    /\ MdsWellFormed
    /\ no_of_modes = Some(2)
    /\ no_of_nodes = Some(2)
    /\ DOMAIN modes = {1, 2}
    /\ modes[1].nat_freq = 5
    /\ modes[1].segments = <<1, 2>>
    /\ modes[1].mode_shape = <<5, 1>>

\* a line `SET=<name>, TYPE=CONSTANT`
IsConstantSetLine(s) ==
    /\ Contains(s, "SET=")
    /\ HydroTypeAfter(s, NoValue) = Some(<<"constant">>)

\* a comma-separated row of at most six numbers
IsNumericRow(s) ==
    /\ IsCoeffRow(s)
    /\ Len(Split(s, ",")) <= Len(Coeffs)
    /\ \A i \in DOMAIN Split(s, ",") : PyFloat(Split(s, ",")[i]).err = "none"

\* C16: when a numeric row directly follows a line `SET=<name>, TYPE=CONSTANT`, the
\* row is read without an exception and the entry keyed by <name> holds the row's
\* i-th value under the i-th coefficient name, and None under the names beyond the
\* row's length
C16_ConstantRowAssigned ==
    /\ (/\ h_pc \notin {"idle", "models", "done"}
        /\ h_i >= 2 /\ h_i <= Len(hydro_lines)
        /\ IsConstantSetLine(hydro_lines[h_i - 1])
        /\ IsNumericRow(hydro_lines[h_i]))
       => h_pc = "rows"
    /\ (/\ h_pc = "rows" /\ h_i >= 3
        /\ IsConstantSetLine(hydro_lines[h_i - 2])
        /\ IsNumericRow(hydro_lines[h_i - 1]))
       => LET row == Split(hydro_lines[h_i - 1], ",")
              sname == HydroSetName(hydro_lines[h_i - 2])
          IN /\ sname \in DOMAIN hydro_sets
             /\ \A i \in DOMAIN Coeffs :
                   hydro_sets[sname][Coeffs[i]] =
                       IF i <= Len(row) THEN Some(PyFloat(row[i]).val) ELSE NoValue

\* `SET=A, TYPE=CONSTANT` then `1,2` gave Normal Drag 1.0 and Tangential Drag 2.0
\* under A
C16_Witness ==
    /\ h_pc = "rows"
    /\ h_i = 3
    /\ IsConstantSetLine(hydro_lines[1])
    /\ IsNumericRow(hydro_lines[2])
    /\ hydro_sets[<<"A">>]["Normal Drag"] = Some(1)
    /\ hydro_sets[<<"A">>]["Tangential Drag"] = Some(2)

(***************************************************************************)
(* DasFile.read_das_file                                                   *)
(* The first token of a line of the file is its first character.           *)
(***************************************************************************)
MaxRawLines == 3

\* Lines of a .das file, as f.readline() returns them
RawLines == {
    <<"c", " note", NL>>,
    <<"C", " note", NL>>,
    <<SP, "c", " note", NL>>,
    <<SP, "C", "URRENT=1", NL>>,
    <<"*", "OCEAN", SP, NL>>,
    <<SP, "$", "MODEL", NL>>,
    <<SP, NL>>,
    <<NL>>}

\* self.data = []; the file is open
ReadInit ==
    /\ raw_lines \in SeqsUpTo(RawLines, MaxRawLines)
    /\ read_i = 1
    /\ read_pc = "read"
    /\ OthersIdle("read")

\* if len(line) > 0: if line[0].lower() != 'c', of the line after rstrip()
IsKept(line) ==
    RStrip(line) # <<>> /\ Lower(RStrip(line)[1]) # "c"

\* self.data.append(line.strip().rstrip())
ReadKeepLine ==
    /\ read_pc = "read"
    /\ read_i <= Len(raw_lines)
    /\ IsKept(raw_lines[read_i])
    /\ data' = Append(data, RStrip(Strip(raw_lines[read_i])))
    /\ read_i' = read_i + 1
    /\ UNCHANGED <<raw_lines, read_pc, das_i, das_pc, dollar_section, star_section,
                   models, no_models, load_cases, no_load_cases, das_data>>
    /\ AllUnchangedBut({"read", "das"})

\* an empty line or a line whose first character is c or C
ReadDropLine ==
    /\ read_pc = "read"
    /\ read_i <= Len(raw_lines)
    /\ ~IsKept(raw_lines[read_i])
    /\ read_i' = read_i + 1
    /\ UNCHANGED <<raw_lines, read_pc>>
    /\ AllUnchangedBut({"read"})

\* if not line: break
ReadEndOfFile ==
    /\ read_pc = "read"
    /\ read_i > Len(raw_lines)
    /\ read_pc' = "done"
    /\ UNCHANGED <<raw_lines, read_i>>
    /\ AllUnchangedBut({"read"})

ReadNext ==
    \/ ReadKeepLine
    \/ ReadDropLine
    \/ ReadEndOfFile

SpecRead == ReadInit /\ [][ReadNext]_vars

\* the trimmed lines among lines that are neither empty nor start with c or C
RECURSIVE Normalized(_)
Normalized(lines) ==
    IF lines = <<>> THEN <<>>
    ELSE IF Strip(Head(lines)) = <<>> \/ Lower(Strip(Head(lines))[1]) = "c"
    THEN Normalized(Tail(lines))
    ELSE <<Strip(Head(lines))>> \o Normalized(Tail(lines))

\* C17 (as claimed): once the file is read, self.data holds, in file order and
\* trimmed, exactly the lines that are not empty after trimming and whose first
\* non-space character is not c or C
C17_DroppedIffCommentOrEmpty ==
    read_pc = "done" => data = Normalized(raw_lines)

\* what the reader does: the test is on the first character of the line, a space
\* included, so an indented line is kept whatever follows the indent
C17_DroppedIffFirstCharacter ==
    read_pc = "done" =>
        data = [k \in 1..Len(SelectSeq(raw_lines, IsKept)) |->
                   Strip(SelectSeq(raw_lines, IsKept)[k])]

\* C18 (as claimed): once the parse is done, the `$` keys of das_data are exactly
\* the `$` lines of the file other than `$MODEL` and `$LOAD CASE`
C18_DollarKeysExcludeModel ==
    das_pc = "done" =>
        {k \in DOMAIN das_data : IsDollar(k)} =
            {data[i] : i \in {j \in DOMAIN data : IsDollar(data[j])}}
                \ {MODEL, LOAD_CASE}

\* what the parser does: the else that stores into das_data belongs to the
\* `$LOAD CASE` test alone, so `$MODEL` is a key of das_data as well
C18_DollarKeysExcludeLoadCase ==
    das_pc = "done" =>
        {k \in DOMAIN das_data : IsDollar(k)} =
            {data[i] : i \in {j \in DOMAIN data : IsDollar(data[j])}} \ {LOAD_CASE}

\* does the line hold `successful <solver> analysis`, whatever the case
HasSuccessPhrase(line) == \E i \in DOMAIN line : Lower(line[i]) = SuccessPhrase(solver)

\* does the line hold one of the four failure sentinels
HasFailureSentinel(line) ==
    \/ Contains(line, "Error: Solution has failed to converge.")
    \/ Contains(line, "Error: The restart file for this analysis does not exist.")
    \/ Contains(line, "No database files exist for opening.")
    \/ Contains(line, "dongle")

\* C19 (as claimed): after the read, converged is True when some line of the file
\* holds the success phrase, and None when no line holds it or a failure sentinel
C19_SuccessLineConverges ==
    out_pc = "done" =>
        /\ (\E i \in DOMAIN out_file : HasSuccessPhrase(out_file[i])) =>
              converged = True
        /\ (\A i \in DOMAIN out_file :
               ~HasSuccessPhrase(out_file[i]) /\ ~HasFailureSentinel(out_file[i])) =>
              converged = None

\* what the reader does: the last line that holds a sentinel decides, and in one
\* line a failure sentinel wins over the success phrase
C19_LastSentinelDecides ==
    out_pc = "done" =>
        LET at == {i \in DOMAIN out_file :
                      HasSuccessPhrase(out_file[i]) \/ HasFailureSentinel(out_file[i])}
        IN IF at = {} THEN converged = None
           ELSE LET last == CHOOSE i \in at : \A j \in at : j <= i
                IN converged = IF HasFailureSentinel(out_file[last]) THEN False
                               ELSE True

(***************************************************************************)
(* OutputFile.process_environment_data and OutputFile.process_offset       *)
(* offset_perc_wd is held in hundredths.                                   *)
(***************************************************************************)
MaxOceanLines == 1

MaxOffsetLines == 2

OCEAN_ENVIRONMENT == <<"OCEAN ENVIRONMENT DATA">>

VESSEL_MOTION == <<"OUTPUT OF VESSEL MOTION DATA">>

VESSEL_OFFSET == "Vessel Offset (Global Coordinates)"

\* Lines that may stand in *** OCEAN ENVIRONMENT DATA ***
OceanLines == {
    <<SP, "2", ".", "0", SP, "Water Depth">>,
    <<SP, "5", ".", "0", SP, "Water Depth">>,
    <<SP, "0", ".", "0", SP, "Water Depth">>,
    <<SP, "Seabed">>}

\* Lines that may stand in *** OUTPUT OF VESSEL MOTION DATA ***
OffsetLines == {
    <<SP, VESSEL_OFFSET, ":", SP, "1", SP, "0", SP, "2">>,
    <<SP, VESSEL_OFFSET, ":", SP, "1", SP, "m", SP, "5", SP, "m", SP, "0", SP, "m">>,
    <<SP, VESSEL_OFFSET, ":", SP, "0", SP, "0", SP, "0">>,
    <<SP, VESSEL_OFFSET, ":", SP, "1", SP, "2">>,
    <<SP, VESSEL_OFFSET, ":", SP, "x", SP, "0", SP, "2">>,
    <<SP, "Vessel Heave">>}

\* the lines of a section of the file, its header first; none for no section
SectionText(k, sec) ==
    IF sec = NoValue THEN <<>> ELSE << <<SP, STARS, SP, k[1], SP, STARS>> >> \o sec[1]

\* The OutputFile object after read_out_file of a file with these two sections
OutParsed(ocean, vessel) ==
    /\ out_file = SectionText(OCEAN_ENVIRONMENT, ocean)
                      \o SectionText(VESSEL_MOTION, vessel)
    /\ solver \in {"deepriser", "flexcom"}
    /\ out_i = Len(out_file) + 1
    /\ out_pc = "done"
    /\ key = IF vessel # NoValue THEN VESSEL_MOTION
             ELSE IF ocean # NoValue THEN OCEAN_ENVIRONMENT ELSE HEADERS
    /\ out_data =
          LET h == Put(EmptyDict, HEADERS, EmptyList)
              o == IF ocean = NoValue THEN h ELSE Put(h, OCEAN_ENVIRONMENT, ocean[1])
          IN IF vessel = NoValue THEN o ELSE Put(o, VESSEL_MOTION, vessel[1])
    /\ converged = None
    /\ restart = "unset"

\* __init__ up to process_environment_data
OffInit ==
    /\ \E ocean \in {NoValue} \cup {Some(l) : l \in SeqsUpTo(OceanLines, MaxOceanLines)},
          vessel \in {NoValue} \cup {Some(l) : l \in SeqsUpTo(OffsetLines, MaxOffsetLines)} :
          OutParsed(ocean, vessel)
    /\ off_pc = "process_environment_data"
    /\ off_i = 1
    /\ out_water_depth = NoValue
    /\ offsets = NoValue
    /\ offset_mag = NoValue
    /\ offset_perc_wd = NoValue
    /\ OthersIdle("off")

\* for d in ...: if '.' in d: self.water_depth = float(d.split()[0]), over the
\* lines from the first on: the depth assigned last, and the exception if any
RECURSIVE WaterDepthAfter(_, _)
WaterDepthAfter(lines, wd) ==
    IF lines = <<>> THEN [err |-> "none", val |-> wd]
    ELSE IF ~Contains(Head(lines), ".") THEN WaterDepthAfter(Tail(lines), wd)
    ELSE LET x == PyFloat(Words(Head(lines))[1]) IN
         IF x.err # "none" THEN [err |-> x.err, val |-> wd]
         ELSE WaterDepthAfter(Tail(lines), Some(x.val))

\* process_environment_data
OffEnvironment ==
    /\ off_pc = "process_environment_data"
    /\ LET read == IF OCEAN_ENVIRONMENT \in DOMAIN out_data
                   THEN WaterDepthAfter(out_data[OCEAN_ENVIRONMENT], out_water_depth)
                   ELSE [err |-> "none", val |-> out_water_depth]
       IN /\ out_water_depth' = read.val
          /\ off_pc' = IF read.err = "none" THEN "process_offset" ELSE read.err
    /\ UNCHANGED <<off_i, offsets, offset_mag, offset_perc_wd, outVars>>
    /\ OthersUnchanged("off")

\* (y ** 2 + z ** 2) ** 0.5, for the whole-valued results
Magnitude(y, z) == CHOOSE r \in 0..(y + z) : r * r = y * y + z * z

\* round(self.offset_mag / self.water_depth, 2), in hundredths
PercentOfDepth(mag, wd) ==
    IF wd = NoValue THEN Raise("TypeError")
    ELSE IF wd[1] = 0 THEN Raise("ZeroDivisionError")
    ELSE Ok((200 * mag + wd[1]) \div (2 * wd[1]))

\* process_offset, no section *** OUTPUT OF VESSEL MOTION DATA ***
OffNoSection ==
    /\ off_pc = "process_offset"
    /\ VESSEL_MOTION \notin DOMAIN out_data
    /\ off_pc' = "done"
    /\ UNCHANGED <<off_i, out_water_depth, offsets, offset_mag, offset_perc_wd,
                   outVars>>
    /\ OthersUnchanged("off")

\* process_offset, one line d of the section
OffLine ==
    /\ off_pc = "process_offset"
    /\ VESSEL_MOTION \in DOMAIN out_data
    /\ off_i <= Len(out_data[VESSEL_MOTION])
    /\ LET d == out_data[VESSEL_MOTION][off_i]
           offset_data == Words(Split(d, ":")[2])
           picked == IF Len(offset_data) = 6 THEN <<1, 3, 5>> ELSE <<1, 2, 3>>
           floats == [k \in 1..3 |-> PyFloat(offset_data[picked[k]])]
           mag == Magnitude(floats[2].val, floats[3].val)
           perc == PercentOfDepth(mag, out_water_depth)
       IN IF ~(Contains(d, VESSEL_OFFSET) /\ Contains(d, ":"))
             \/ Len(offset_data) \notin {3, 6}
          THEN /\ off_i' = off_i + 1
               /\ UNCHANGED <<off_pc, offsets, offset_mag, offset_perc_wd>>
          ELSE IF \E k \in 1..3 : floats[k].err # "none"
          THEN /\ off_pc' = "ValueError"
               /\ UNCHANGED <<off_i, offsets, offset_mag, offset_perc_wd>>
          ELSE /\ offsets' = Some([k \in 1..3 |-> floats[k].val])
               /\ offset_mag' = Some(mag)
               /\ IF perc.err # "none"
                  THEN /\ off_pc' = perc.err
                       /\ UNCHANGED <<off_i, offset_perc_wd>>
                  ELSE /\ offset_perc_wd' = Some(perc.val)
                       /\ off_i' = off_i + 1
                       /\ UNCHANGED off_pc
    /\ UNCHANGED <<out_water_depth, outVars>>
    /\ OthersUnchanged("off")

\* the end of the loop: if not self.offset_perc_wd: self.offset_perc_wd = 0
OffEnd ==
    /\ off_pc = "process_offset"
    /\ VESSEL_MOTION \in DOMAIN out_data
    /\ off_i > Len(out_data[VESSEL_MOTION])
    /\ offset_perc_wd' = IF offset_perc_wd = NoValue THEN Some(0) ELSE offset_perc_wd
    /\ off_pc' = "done"
    /\ UNCHANGED <<off_i, out_water_depth, offsets, offset_mag, outVars>>
    /\ OthersUnchanged("off")

OffNext ==
    \/ OffEnvironment
    \/ OffNoSection
    \/ OffLine
    \/ OffEnd

SpecOff == OffInit /\ [][OffNext]_vars

\* C20 (as claimed): process_offset on a `Vessel Offset (Global Coordinates):`
\* line with water_depth None does not end in a TypeError; it reports the
\* missing water depth
C20_MissingDepthReported ==
    (/\ out_water_depth = NoValue
     /\ off_pc \notin {"idle", "process_environment_data", "process_offset", "done"})
        => off_pc = "MissingFieldError"

\* C21 (as claimed): nothing of the errors list is printed before the last stage
\* of the constructor has run, and every construction that appended an error
\* ends with all the entries of the list printed
C21_ErrorsSurfacedAtEnd ==
    /\ reported # <<>> => ctor_pc = "constructed"
    /\ (ctor_pc \in Exceptions \cup {"constructed"} /\ errors # <<>>) =>
          reported = errors

\* what the constructor does: the entries are printed, all at once, by the
\* constructions that reach handle_errors; one that raises in a later stage
\* prints none
C21_ErrorsSurfacedWhenConstructed ==
    /\ reported # <<>> => ctor_pc = "constructed"
    /\ ctor_pc = "constructed" => reported = errors
    /\ ctor_pc \in Exceptions => reported = <<>>

\* C22 (as claimed): process_element_sets never returns None: whatever the
\* sections of the model, the call that returns returns the dict of the sets
C22_AlwaysReturnsDict ==
    es_pc # "return None"

\* is line i a `<value ` line that follows a `<component ` line with no `<menu `
\* line in between
ValueAfterComponent(i) ==
    /\ StartsWith(dpx_data[i], "<value ")
    /\ \E c \in 1..(i - 1) :
          /\ StartsWith(dpx_data[c], "<component ")
          /\ \A j \in (c + 1)..(i - 1) : ~StartsWith(dpx_data[j], "<menu ")

\* C23 (as claimed): a `<value ` line that follows a `<component ` line with no
\* `<menu ` line in between is passed over without an exception
C23_ComponentClosesMenu ==
    \A i \in DOMAIN dpx_data :
        ValueAfterComponent(i) => ~(dpx_pc = "KeyError" /\ dpx_i = i)

(***************************************************************************)
(* DPX.assemble_wave_types and DPX.assemble_jonswap_wave_data              *)
(***************************************************************************)
AIRY == <<"Regular Airy|||">>

JONSWAP == <<"Jonswap - Equal Area - Hs/Tp|||">>

\* Lines of a .dpx file with Wave components
WaveLines == {
    ComponentLine("W", "1", "Wave"),
    ComponentLine("V", "2", "Wave"),
    ComponentLine("X", "3", "BOP"),
    MenuLine(AIRY[1]),
    MenuLine(JONSWAP[1]),
    OptionLine("P", "1"),
    ValueLine("Wave Height", "0", "2")}

\* DPX.__init__: read_das has read the lines; parse_dpx starts
WaveInit ==
    /\ dpx_data \in SeqsUpTo(WaveLines, MaxDpxLines)
    /\ dpx_pc = "loop"
    /\ dpx_i = 1
    /\ name = NoValue
    /\ component_type = NoValue
    /\ menu = NoValue
    /\ current_row = NoValue
    /\ components = EmptyDict
    /\ OthersIdle("dpx")

\* self.components.keys(): the names in the order of their first `<component `
\* line among the first n lines
RECURSIVE ComponentKeys(_)
ComponentKeys(n) ==
    IF n = 0 THEN <<>>
    ELSE LET before == ComponentKeys(n - 1) IN
         IF StartsWith(dpx_data[n], "<component ")
            /\ \A k \in DOMAIN before : before[k] # Split(dpx_data[n], Q)[2]
         THEN Append(before, Split(dpx_data[n], Q)[2])
         ELSE before

\* [self.components[x].name for x in self.components.keys()
\*  if self.components[x].component_type == component_type]
get_all_components(type) ==
    LET all == ComponentKeys(Len(dpx_data))
        named == [k \in DOMAIN all |-> components[all[k]].name]
    IN SelectSeq(named, LAMBDA x : components[x].component_type = type)

\* wave_type after the if / elif of assemble_wave_types; the elif tests a string
\* literal, which is true
WaveType(menus) ==
    IF AIRY \in DOMAIN menus THEN "Regular Airy"
    ELSE "Jonswap - Equal Area - Hs/Tp"

\* assemble_jonswap_wave_data is called on a parsed DPX and calls
\* assemble_wave_types: waves = self.get_all_components('Wave')
WaveCall ==
    /\ dpx_pc = "done"
    /\ wave_pc = "idle"
    /\ wave_pc' = "assemble_wave_types"
    /\ waves' = get_all_components(<<"Wave">>)
    /\ wave_i' = 1
    /\ UNCHANGED <<wave_types, jonswap_data, dpxVars>>
    /\ OthersUnchanged("wave")

\* one iteration of for wave in waves: wave_data.append([wave, wave_type])
WaveClassify ==
    /\ wave_pc = "assemble_wave_types"
    /\ wave_i <= Len(waves)
    /\ wave_types' = Append(wave_types,
                            <<waves[wave_i], WaveType(components[waves[wave_i]].menus)>>)
    /\ wave_i' = wave_i + 1
    /\ UNCHANGED <<wave_pc, waves, jonswap_data, dpxVars>>
    /\ OthersUnchanged("wave")

\* return wave_data, to assemble_jonswap_wave_data
WaveTypesReturn ==
    /\ wave_pc = "assemble_wave_types"
    /\ wave_i > Len(waves)
    /\ wave_pc' = "assemble_jonswap_wave_data"
    /\ wave_i' = 1
    /\ UNCHANGED <<waves, wave_types, jonswap_data, dpxVars>>
    /\ OthersUnchanged("wave")

JonswapParams ==
    <<(<<"Wave Height">>), <<"Peak Period">>, <<"Max Frequency Increment">>,
      <<"Cut-off Frequency">>, <<"Number of Harmonics">>, <<"Wave Directions">>,
      <<"Dominant Direction">>, <<"Wave Spreading Exponent">>>>

\* self.components[wave[0]].menus['Jonswap - Equal Area - Hs/Tp|||'][-1][param],
\* for the eight parameters in turn
JonswapRow(menus) ==
    IF JONSWAP \notin DOMAIN menus THEN Raise("KeyError")
    ELSE IF menus[JONSWAP] = EmptyList THEN Raise("IndexError")
    ELSE LET last == menus[JONSWAP][Len(menus[JONSWAP])] IN
         IF \E k \in DOMAIN JonswapParams : JonswapParams[k] \notin DOMAIN last
         THEN Raise("KeyError")
         ELSE Ok([k \in DOMAIN JonswapParams |-> last[JonswapParams[k]]])

\* one iteration of for wave in waves of assemble_jonswap_wave_data
JonswapStep ==
    /\ wave_pc = "assemble_jonswap_wave_data"
    /\ wave_i <= Len(wave_types)
    /\ IF wave_types[wave_i][2] # "Jonswap - Equal Area - Hs/Tp"
       THEN /\ wave_i' = wave_i + 1
            /\ UNCHANGED <<wave_pc, jonswap_data>>
       ELSE LET row == JonswapRow(components[wave_types[wave_i][1]].menus) IN
            IF row.err # "none"
            THEN /\ wave_pc' = row.err
                 /\ UNCHANGED <<wave_i, jonswap_data>>
            ELSE /\ jonswap_data' = Append(jonswap_data,
                                           <<wave_types[wave_i][1], row.val>>)
                 /\ wave_i' = wave_i + 1
                 /\ UNCHANGED wave_pc
    /\ UNCHANGED <<waves, wave_types, dpxVars>>
    /\ OthersUnchanged("wave")

\* return wave_data
JonswapReturn ==
    /\ wave_pc = "assemble_jonswap_wave_data"
    /\ wave_i > Len(wave_types)
    /\ wave_pc' = "done"
    /\ UNCHANGED <<wave_i, waves, wave_types, jonswap_data, dpxVars>>
    /\ OthersUnchanged("wave")

WaveNext ==
    \/ DpxNext
    \/ WaveCall
    \/ WaveClassify
    \/ WaveTypesReturn
    \/ JonswapStep
    \/ JonswapReturn

SpecWave == WaveInit /\ [][WaveNext]_vars

\* C24 (as claimed): every Wave component is classified 'Regular Airy' when it
\* has the Regular Airy menu, else 'Jonswap - Equal Area - Hs/Tp' when it has
\* that menu, else 'Unknown'; and assemble_jonswap_wave_data does not look up
\* the Jonswap menu of a component that has none
C24_WaveTypeByMenu ==
    /\ \A k \in DOMAIN wave_types :
          wave_types[k][2] =
              LET menus == components[wave_types[k][1]].menus IN
              IF AIRY \in DOMAIN menus THEN "Regular Airy"
              ELSE IF JONSWAP \in DOMAIN menus THEN "Jonswap - Equal Area - Hs/Tp"
              ELSE "Unknown"
    /\ wave_pc = "KeyError" =>
          JONSWAP \in DOMAIN components[wave_types[wave_i][1]].menus

\* the number of `Plot Data:` lines among lines 1..i since the last `Table No.`
\* line
RECURSIVE PlotLines(_)
PlotLines(i) ==
    IF i = 0 \/ IsTableLine(contents[i]) THEN 0
    ELSE IF InTable(i) /\ HasPrefix(contents[i], "Plot Data") THEN PlotLines(i - 1) + 1
    ELSE PlotLines(i - 1)

\* C25 (as claimed): while parse_contents runs, the table being read has as many
\* series keys as `Plot Data:` lines were read in it: every such line opened a
\* series of its own, whatever the titles
C25_SeriesPerPlotLine ==
    (tab_pc = "parse_contents" /\ table # NoValue) =>
        Cardinality(DOMAIN tab_file_data[table[1]]) = PlotLines(tab_idx - 1)

(***************************************************************************)
(* Shear7File.process_block4                                               *)
(* reads is the history of the lines of BLOCK 4 indexed by the loop: the   *)
(* position of the line, what it was read as, and for which curve          *)
(***************************************************************************)
MaxB4Lines == 7

\* Lines of BLOCK 4: a count, a row of two numbers, a row of two numbers with a
\* comma after the first, and a text line
B4Lines == {
    <<"2">>,
    <<"1", SP, "0">>,
    <<"2", ",", SP, "1">>,
    <<"x">>}

\* setup_variables, and self.data["BLOCK 4"] as parse_file left it
B4Init ==
    /\ block4 \in SeqsUpTo(B4Lines, MaxB4Lines)
    /\ b4_pc = "process_block4"
    /\ number_of_sn_curves = 0
    /\ global_scf = NoValue
    /\ line_idx = 0
    /\ curve_idx = 0
    /\ sn_id = 0
    /\ no_segments = 0
    /\ point_i = 0
    /\ sn_curves = EmptyDict
    /\ sn_curves_text = EmptyList
    /\ reads = <<>>
    /\ OthersIdle("b4")

\* seq[k] of Python, k of either sign
PyAt(seq, k) ==
    IF k >= 0 /\ k < Len(seq) THEN Ok(seq[k + 1])
    ELSE IF k < 0 /\ k >= 0 - Len(seq) THEN Ok(seq[Len(seq) + k + 1])
    ELSE Raise("IndexError")

\* the position (from 1) of the line that seq[k] reads
PositionAt(seq, k) == IF k >= 0 THEN k + 1 ELSE Len(seq) + k + 1

\* int(line.split()[0])
FirstWordInt(line) ==
    LET w == Item(Words(line), 0) IN
    IF w.err # "none" THEN w ELSE PyInt(w.val)

\* float(line.split()[0].split(",")[0])
FirstWordFloat(line) ==
    LET w == Item(Words(line), 0) IN
    IF w.err # "none" THEN w ELSE PyFloat(Split(w.val, ",")[1])

\* int(line.split()[0].split(",")[0])
HeaderId(line) ==
    LET w == Item(Words(line), 0) IN
    IF w.err # "none" THEN w ELSE PyInt(Split(w.val, ",")[1])

\* int(line.split()[1])
HeaderSegments(line) ==
    LET w == Item(Words(line), 1) IN
    IF w.err # "none" THEN w ELSE PyInt(w.val)

\* float(line[n].replace(",", "")) of line = ....split()
PointValue(line, n) ==
    LET w == Item(Words(line), n) IN
    IF w.err # "none" THEN w ELSE PyFloat(Without(w.val, ","))

\* line_idx after a curve
NextHeader_Overlap(idx, segments) == idx + (2 + segments)

NextHeader(idx, segments) == idx + (3 + segments)

\* number_of_sn_curves and global_scf
B4Counts ==
    /\ b4_pc = "process_block4"
    /\ LET first == PyAt(block4, 0)
           n == IF first.err # "none" THEN first ELSE FirstWordInt(first.val)
           last == PyAt(block4, -2)
           scf == IF last.err # "none" THEN last ELSE FirstWordFloat(last.val)
       IN IF n.err # "none"
          THEN b4_pc' = n.err /\ UNCHANGED <<number_of_sn_curves, global_scf,
                                             line_idx, curve_idx>>
          ELSE /\ number_of_sn_curves' = n.val
               /\ IF scf.err # "none"
                  THEN b4_pc' = scf.err /\ UNCHANGED <<global_scf, line_idx, curve_idx>>
                  ELSE /\ global_scf' = Some(scf.val)
                       /\ line_idx' = 1
                       /\ curve_idx' = 1
                       /\ b4_pc' = "curves"
    /\ UNCHANGED <<block4, sn_id, no_segments, point_i, sn_curves, sn_curves_text,
                   reads>>
    /\ OthersUnchanged("b4")

\* the first three statements of for idx in range(1, self.number_of_sn_curves+1)
B4Header ==
    /\ b4_pc = "curves"
    /\ curve_idx <= number_of_sn_curves
    /\ LET line == PyAt(block4, line_idx)
           id == IF line.err # "none" THEN line ELSE HeaderId(line.val)
           segments == IF line.err # "none" THEN line ELSE HeaderSegments(line.val)
       IN /\ reads' = IF line.err # "none" THEN reads
                      ELSE Append(reads, [kind |-> "header",
                                          at |-> PositionAt(block4, line_idx),
                                          curve |-> curve_idx,
                                          segments |-> IF segments.err = "none"
                                                       THEN segments.val ELSE 0])
          /\ IF id.err # "none"
             THEN b4_pc' = id.err /\ UNCHANGED <<sn_id, sn_curves, no_segments, point_i>>
             ELSE /\ sn_id' = id.val
                  /\ sn_curves' = Put(sn_curves, id.val, <<EmptyList, EmptyList>>)
                  /\ IF segments.err # "none"
                     THEN b4_pc' = segments.err /\ UNCHANGED <<no_segments, point_i>>
                     ELSE /\ no_segments' = segments.val
                          /\ point_i' = 2
                          /\ b4_pc' = "points"
    /\ UNCHANGED <<block4, number_of_sn_curves, global_scf, line_idx, curve_idx,
                   sn_curves_text>>
    /\ OthersUnchanged("b4")

\* one iteration of for i in range(2, 2 + no_segments + 1)
B4Point ==
    /\ b4_pc = "points"
    /\ point_i < 2 + no_segments + 1
    /\ LET line == PyAt(block4, line_idx + point_i)
           stress == IF line.err # "none" THEN line ELSE PointValue(line.val, 0)
           cycles == IF line.err # "none" THEN line ELSE PointValue(line.val, 1)
       IN /\ reads' = IF line.err # "none" THEN reads
                      ELSE Append(reads, [kind |-> "point",
                                          at |-> PositionAt(block4, line_idx + point_i),
                                          curve |-> curve_idx,
                                          segments |-> no_segments])
          /\ IF stress.err # "none"
             THEN b4_pc' = stress.err /\ UNCHANGED <<sn_curves, point_i>>
             ELSE IF cycles.err # "none"
             THEN /\ b4_pc' = cycles.err
                  /\ sn_curves' = [sn_curves EXCEPT ![sn_id][1] = Append(@, stress.val)]
                  /\ UNCHANGED point_i
             ELSE /\ sn_curves' = [sn_curves EXCEPT ![sn_id][1] = Append(@, stress.val),
                                                    ![sn_id][2] = Append(@, cycles.val)]
                  /\ point_i' = point_i + 1
                  /\ UNCHANGED b4_pc
    /\ UNCHANGED <<block4, number_of_sn_curves, global_scf, line_idx, curve_idx, sn_id,
                   no_segments, sn_curves_text>>
    /\ OthersUnchanged("b4")

\* line_idx += (3 + no_segments)
B4EndCurve ==
    /\ b4_pc = "points"
    /\ point_i >= 2 + no_segments + 1
    /\ line_idx' = NextHeader(line_idx, no_segments)
    /\ curve_idx' = curve_idx + 1
    /\ b4_pc' = "curves"
    /\ UNCHANGED <<block4, number_of_sn_curves, global_scf, sn_id, no_segments, point_i,
                   sn_curves, sn_curves_text, reads>>
    /\ OthersUnchanged("b4")

\* f"{text},{stress},{cycles}" for the points of a curve from the k-th on
RECURSIVE PointsText(_, _)
PointsText(curve, k) ==
    IF k > Len(curve[1]) THEN <<>>
    ELSE <<",", StrFloat(curve[1][k]), ",", StrFloat(curve[2][k])>>
         \o PointsText(curve, k + 1)

\* the ids of the curves in the order their headers were first read, which is
\* the order of self.sn_curves.keys()
RECURSIVE CurveKeys(_)
CurveKeys(n) ==
    IF n = 0 THEN <<>>
    ELSE LET before == CurveKeys(n - 1) IN
         IF /\ reads[n].kind = "header"
            /\ HeaderId(block4[reads[n].at]).err = "none"
            /\ \A k \in DOMAIN before : before[k] # HeaderId(block4[reads[n].at]).val
         THEN Append(before, HeaderId(block4[reads[n].at]).val)
         ELSE before

\* Gen text
B4GenText ==
    /\ b4_pc = "curves"
    /\ curve_idx > number_of_sn_curves
    /\ sn_curves_text' =
          LET keys == CurveKeys(Len(reads)) IN
          [k \in DOMAIN keys |->
              <<IntText(keys[k])>> \o PointsText(sn_curves[keys[k]], 1)]
    /\ b4_pc' = "done"
    /\ UNCHANGED <<block4, number_of_sn_curves, global_scf, line_idx, curve_idx, sn_id,
                   no_segments, point_i, sn_curves, reads>>
    /\ OthersUnchanged("b4")

B4Next ==
    \/ B4Counts
    \/ B4Header
    \/ B4Point
    \/ B4EndCurve
    \/ B4GenText

SpecB4 == B4Init /\ [][B4Next]_vars

\* the read of the header of curve c, and the reads of its points
HeaderRead(c) ==
    SelectSeq(reads, LAMBDA r : r.kind = "header" /\ r.curve = c)

PointReads(c) ==
    SelectSeq(reads, LAMBDA r : r.kind = "point" /\ r.curve = c)

\* C26: while process_block4 runs and after it: every curve whose loop body has
\* ended had exactly no_segments + 1 points read, from consecutive lines of which
\* the first is two lines after the header of the curve; the header of every
\* curve after the first was read from the line following the last point of the
\* curve before; no line was read both as a point and as a header; and at the end
\* of a curve no_segments + 1 stresses and cycles are stored under its id
C26_CurveLayout ==
    /\ \A c \in 1..(curve_idx - 1) :
          /\ Len(HeaderRead(c)) = 1
          /\ Len(PointReads(c)) = HeaderRead(c)[1].segments + 1
          /\ \A k \in DOMAIN PointReads(c) :
                PointReads(c)[k].at = HeaderRead(c)[1].at + 1 + k
    /\ \A c \in 2..curve_idx :
          HeaderRead(c) # <<>> =>
              HeaderRead(c)[1].at = PointReads(c - 1)[Len(PointReads(c - 1))].at + 1
    /\ \A j, k \in DOMAIN reads :
          (reads[j].kind = "header" /\ reads[k].kind = "point") =>
              reads[j].at # reads[k].at
    /\ (b4_pc = "points" /\ point_i >= 2 + no_segments + 1) =>
          /\ Len(sn_curves[sn_id][1]) = no_segments + 1
          /\ Len(sn_curves[sn_id][2]) = no_segments + 1

\* two curves of one point each were read to the end, the header of the second
\* from the fifth line
C26_Witness ==
    /\ b4_pc = "done"
    /\ number_of_sn_curves = 2
    /\ Len(HeaderRead(2)) = 1
    /\ Len(PointReads(1)) = 1
    /\ Len(PointReads(2)) = 1
    /\ HeaderRead(2)[1].at = 5

\* C27 (as claimed): after process_hydro_sets the index of df_hydro_sets, which
\* is the index of the first frame followed by those of the frames concatenated
\* to it, holds every key of hydro_sets, and no key twice
C27_EachSetOnce ==
    (h_pc = "done" /\ df_hydro_sets # NoValue) =>
        /\ \A hk \in DOMAIN hydro_sets :
              \E j \in DOMAIN df_hydro_sets[1] : hk \in DOMAIN df_hydro_sets[1][j]
        /\ \A j, k \in DOMAIN df_hydro_sets[1] :
              j # k => DOMAIN df_hydro_sets[1][j] \cap DOMAIN df_hydro_sets[1][k] = {}

(***************************************************************************)
(* DasFile.gen_load_case_summary: the loop over *INTERNAL FLUID            *)
(* lc_units is self.units as get_units left it; a number is kept as the    *)
(* fraction num/den, which shows the conversion that produced it           *)
(***************************************************************************)
MaxFluidLines == 3

\* self.units after a get_units that has not raised: None, or a text whose
\* lower case is a key of units_dict
UnitsValues ==
    {NoValue, Some(<<"IMPERIAL">>), Some(<<"imperial">>), Some(<<"Imperial">>),
     Some(<<"METRIC">>), Some(<<"metric">>)}

\* Lines of an *INTERNAL FLUID section: the set line, and data lines of three,
\* six and five fields and one starting with a text
FluidLines == {
    <<"SET=_InternalFluid">>,
    <<"1", ",", "2", ",", "5">>,
    <<"1", ",", "2", ",", "5", ",", "0", ",", "0", ",", "1">>,
    <<"1", ",", "2", ",", "5", ",", "0", ",", "0">>,
    <<"x", ",", "2", ",", "5">>}

\* gen_load_case_summary reaches the loop over *INTERNAL FLUID of a load case
FluidInit ==
    /\ lc_units \in UnitsValues
    /\ fluid_lines \in SeqsUpTo(FluidLines, MaxFluidLines)
    /\ fluid_pc = "loop"
    /\ fluid_index = 0
    /\ fluid_count = 0
    /\ fluid_summary = EmptyDict
    /\ OthersIdle("fluid")

\* if self.units.lower() == 'imperial': pressure = pressure/144
PressureIn(u, p) ==
    IF LowerAll(u) = <<"imperial">> THEN [num |-> p, den |-> 144]
    ELSE [num |-> p, den |-> 1]

\* if self.units == 'IMPERIAL': internal_fluid = round(internal_fluid*4.3, 2),
\* in hundredths
DensityIn(u, f) ==
    IF u = <<"IMPERIAL">> THEN [num |-> f * 430, den |-> 100]
    ELSE [num |-> f, den |-> 1]

\* if len(fluid_data) >= 5: axial_inertia = int(fluid_data[5])
AxialInertia(fluid_data) ==
    IF Len(fluid_data) < 5 THEN Ok(PyNone)
    ELSE LET f == Item(fluid_data, 5) IN
         IF f.err # "none" THEN f
         ELSE IF PyInt(f.val).err # "none" THEN PyInt(f.val)
         ELSE Ok(Num(PyInt(f.val).val))

\* the four fields of the fluid numbered n
FluidFields(n, level, fluid, pressure, inertia) ==
    (<<"Internal Fluid Level", n>> :> [num |-> level, den |-> 1])
    @@ (<<"Internal Fluid", n>> :> fluid)
    @@ (<<"Fluid Pressure", n>> :> pressure)
    @@ (<<"Axial Inertia", n>> :> inertia)

\* if 'SET=_InternalFluid' in d and index < len(...)-1
IsFluidSet(index) ==
    /\ Contains(fluid_lines[index + 1], "SET=_InternalFluid")
    /\ index < Len(fluid_lines) - 1

\* a line the if takes
FluidRow ==
    /\ fluid_pc = "loop"
    /\ fluid_index < Len(fluid_lines)
    /\ IsFluidSet(fluid_index)
    /\ LET fluid_data == Split(fluid_lines[fluid_index + 2], ",")
           level == PyFloat(fluid_data[1])
           fluid == IF Len(fluid_data) >= 2 THEN PyFloat(fluid_data[2])
                    ELSE Raise("IndexError")
           pressure == IF Len(fluid_data) >= 3 THEN PyFloat(fluid_data[3])
                       ELSE Raise("IndexError")
           inertia == AxialInertia(fluid_data)
           raised == IF level.err # "none" THEN level.err
                     ELSE IF fluid.err # "none" THEN fluid.err
                     ELSE IF pressure.err # "none" THEN pressure.err
                     ELSE IF lc_units = NoValue THEN "AttributeError"
                     ELSE inertia.err
       IN IF raised # "none"
          THEN /\ fluid_pc' = raised
               /\ UNCHANGED <<fluid_index, fluid_count, fluid_summary>>
          ELSE /\ fluid_summary' =
                     FluidFields(fluid_count, level.val,
                                 DensityIn(lc_units[1], fluid.val),
                                 PressureIn(lc_units[1], pressure.val),
                                 inertia.val) @@ fluid_summary
               /\ fluid_count' = fluid_count + 1
               /\ fluid_index' = fluid_index + 1
               /\ UNCHANGED fluid_pc
    /\ UNCHANGED <<lc_units, fluid_lines>>
    /\ OthersUnchanged("fluid")

\* a line the if does not take
FluidOtherLine ==
    /\ fluid_pc = "loop"
    /\ fluid_index < Len(fluid_lines)
    /\ ~IsFluidSet(fluid_index)
    /\ fluid_index' = fluid_index + 1
    /\ UNCHANGED <<fluid_pc, lc_units, fluid_lines, fluid_count, fluid_summary>>
    /\ OthersUnchanged("fluid")

\* self.load_case_summary[l]['Internal Fluid Count'] = fluid_count
FluidCount ==
    /\ fluid_pc = "loop"
    /\ fluid_index >= Len(fluid_lines)
    /\ fluid_summary' = (<<"Internal Fluid Count">> :> fluid_count) @@ fluid_summary
    /\ fluid_pc' = "top tension"
    /\ UNCHANGED <<lc_units, fluid_lines, fluid_index, fluid_count>>
    /\ OthersUnchanged("fluid")

FluidNext ==
    \/ FluidRow
    \/ FluidOtherLine
    \/ FluidCount

SpecFluid == FluidInit /\ [][FluidNext]_vars

\* C28 (as claimed): for every fluid of the summary, the pressure was divided by
\* 144 exactly when the density was multiplied by 4.3
C28_ConversionsAgree ==
    \A n \in 0..(fluid_count - 1) :
        (fluid_summary[<<"Fluid Pressure", n>>].den = 144)
            <=> (fluid_summary[<<"Internal Fluid", n>>].den = 100)

(***************************************************************************)
(* Shear7OutputFile (shear7_output_file_reader.py)                         *)
(***************************************************************************)
MaxS7OutHead == 2

MaxS7OutRows == 3

RESULTS_MARKER == <<"THE RESULTS OF PROGRAM ANALYSIS", NL>>

POWER_MARKER == <<"F = force; L = length; T = time.", NL>>

\* The lines the two markers may stand among
S7OutHeadLines == {RESULTS_MARKER, POWER_MARKER, <<"SHEAR7", NL>>}

\* The five lines between the power marker and the table of modes
S7OutTableHead == [k \in 1..5 |-> <<"heading", NL>>]

\* Lines of the table of modes and after it: a row of seven numbers, a row of two,
\* a blank line, the line of the number of modes, a text line
S7OutRows == {
    <<SP, "1", SP, "2", SP, "0", SP, "0", SP, "5", SP, "0", SP, "2", NL>>,
    <<SP, "2", SP, "1", NL>>,
    <<SP, NL>>,
    <<"modes", SP, "2", NL>>,
    <<"x", NL>>}

\* __init__ up to the loop of read_file: setup_variables, and self.data
S7OutInit ==
    /\ \E head \in SeqsUpTo(S7OutHeadLines, MaxS7OutHead),
          mid \in {<<>>, S7OutTableHead},
          rows \in SeqsUpTo(S7OutRows, MaxS7OutRows) :
          s7o_data = head \o mid \o rows
    /\ s7o_pc = "read_file"
    /\ s7o_idx = 0
    /\ s7o_i = NoValue
    /\ results_start_idx = NoValue
    /\ power_calc_start_idx = NoValue
    /\ initial_power_calcs = EmptyDict
    /\ no_possible_excitated_modes = NoValue
    /\ OthersIdle("s7o")

\* one line of for idx, line in enumerate(self.data)
S7OutReadLine ==
    /\ s7o_pc = "read_file"
    /\ s7o_idx < Len(s7o_data)
    /\ LET line == s7o_data[s7o_idx + 1] IN
       /\ results_start_idx' = IF Contains(line, "THE RESULTS OF PROGRAM ANALYSIS")
                               THEN Some(s7o_idx) ELSE results_start_idx
       /\ IF Contains(line, "F = force; L = length; T = time.")
          THEN /\ power_calc_start_idx' = Some(s7o_idx)
               /\ s7o_pc' = "read"
               /\ UNCHANGED s7o_idx
          ELSE /\ s7o_idx' = s7o_idx + 1
               /\ UNCHANGED <<power_calc_start_idx, s7o_pc>>
    /\ UNCHANGED <<s7o_data, s7o_i, initial_power_calcs, no_possible_excitated_modes>>
    /\ OthersUnchanged("s7o")

\* the loop of read_file ends without a break
S7OutReadEnd ==
    /\ s7o_pc = "read_file"
    /\ s7o_idx >= Len(s7o_data)
    /\ s7o_pc' = "read"
    /\ UNCHANGED <<s7o_data, s7o_idx, s7o_i, results_start_idx, power_calc_start_idx,
                   initial_power_calcs, no_possible_excitated_modes>>
    /\ OthersUnchanged("s7o")

\* if self.results_start_idx is None: print(...) else: parse_possible_excited_modes()
S7OutResultsTest ==
    /\ s7o_pc = "read"
    /\ s7o_pc' = IF results_start_idx = NoValue THEN "constructed"
                 ELSE "parse_possible_excited_modes"
    /\ UNCHANGED <<s7o_data, s7o_idx, s7o_i, results_start_idx, power_calc_start_idx,
                   initial_power_calcs, no_possible_excitated_modes>>
    /\ OthersUnchanged("s7o")

\* range(self.power_calc_start_idx + 6, len(self.data)-1)
S7OutRange ==
    /\ s7o_pc = "parse_possible_excited_modes"
    /\ IF power_calc_start_idx = NoValue
       THEN \* None + 6
            s7o_pc' = "TypeError" /\ UNCHANGED s7o_idx
       ELSE s7o_pc' = "modes" /\ s7o_idx' = power_calc_start_idx[1] + 6
    /\ UNCHANGED <<s7o_data, s7o_i, results_start_idx, power_calc_start_idx,
                   initial_power_calcs, no_possible_excitated_modes>>
    /\ OthersUnchanged("s7o")

\* {"freq_hz": float(line[1]), "Modal Power": float(line[4]),
\*  "Power Ratio Raised Exponent": float(line[6])}, then the key int(line[0])
PowerCalc(line) ==
    LET f(n) == IF Item(line, n).err # "none" THEN Item(line, n)
                ELSE PyFloat(Item(line, n).val)
        k == PyInt(line[1])
    IN IF f(1).err # "none" THEN f(1)
       ELSE IF f(4).err # "none" THEN f(4)
       ELSE IF f(6).err # "none" THEN f(6)
       ELSE IF k.err # "none" THEN k
       ELSE Ok([mode |-> k.val,
                calc |-> ("freq_hz" :> f(1).val) @@ ("Modal Power" :> f(4).val)
                         @@ ("Power Ratio Raised Exponent" :> f(6).val)])

\* one turn of the loop of parse_possible_excited_modes
S7OutModeLine ==
    /\ s7o_pc = "modes"
    /\ s7o_idx < Len(s7o_data) - 1
    /\ s7o_i' = Some(s7o_idx)
    /\ IF Strip(RStrip(s7o_data[s7o_idx + 1])) # <<>>
       THEN LET row == PowerCalc(Words(RStrip(s7o_data[s7o_idx + 1]))) IN
            IF row.err # "none"
            THEN s7o_pc' = row.err /\ UNCHANGED <<s7o_idx, initial_power_calcs>>
            ELSE /\ initial_power_calcs' =
                       Put(initial_power_calcs, row.val.mode, row.val.calc)
                 /\ s7o_idx' = s7o_idx + 1
                 /\ UNCHANGED s7o_pc
       ELSE \* break
            /\ s7o_pc' = "after modes"
            /\ UNCHANGED <<s7o_idx, initial_power_calcs>>
    /\ UNCHANGED <<s7o_data, results_start_idx, power_calc_start_idx,
                   no_possible_excitated_modes>>
    /\ OthersUnchanged("s7o")

\* the range is exhausted
S7OutModesEnd ==
    /\ s7o_pc = "modes"
    /\ s7o_idx >= Len(s7o_data) - 1
    /\ s7o_pc' = "after modes"
    /\ UNCHANGED <<s7o_data, s7o_idx, s7o_i, results_start_idx, power_calc_start_idx,
                   initial_power_calcs, no_possible_excitated_modes>>
    /\ OthersUnchanged("s7o")

\* int(self.data[i+1].rstrip().split()[-1]); i is unbound when the range was empty
ModesCount(i) ==
    IF i = NoValue THEN Raise("UnboundLocalError")
    ELSE LET words == Words(RStrip(s7o_data[i[1] + 2])) IN
         IF words = <<>> THEN Raise("IndexError")
         ELSE PyInt(words[Len(words)])

S7OutModesCount ==
    /\ s7o_pc = "after modes"
    /\ IF ModesCount(s7o_i).err # "none"
       THEN s7o_pc' = ModesCount(s7o_i).err /\ UNCHANGED no_possible_excitated_modes
       ELSE /\ no_possible_excitated_modes' = Some(ModesCount(s7o_i).val)
            /\ s7o_pc' = "constructed"
    /\ UNCHANGED <<s7o_data, s7o_idx, s7o_i, results_start_idx, power_calc_start_idx,
                   initial_power_calcs>>
    /\ OthersUnchanged("s7o")

S7OutNext ==
    \/ S7OutReadLine
    \/ S7OutReadEnd
    \/ S7OutResultsTest
    \/ S7OutRange
    \/ S7OutModeLine
    \/ S7OutModesEnd
    \/ S7OutModesCount

SpecS7Out == S7OutInit /\ [][S7OutNext]_vars

\* C29 (as claimed): when parse_possible_excited_modes is entered,
\* power_calc_start_idx is not None; and a constructor that found no results
\* marker ends with initial_power_calcs empty and no_possible_excitated_modes None
C29_PowerIndexKnown ==
    /\ s7o_pc = "parse_possible_excited_modes" => power_calc_start_idx # NoValue
    /\ (s7o_pc \notin {"read_file", "read"} /\ results_start_idx = NoValue) =>
          /\ s7o_pc = "constructed"
          /\ initial_power_calcs = EmptyDict
          /\ no_possible_excitated_modes = NoValue

\* C29, second half alone: without a results marker the constructor completes
\* with nothing parsed
C29_NoResultsNothingParsed ==
    (s7o_pc \notin {"read_file", "read"} /\ results_start_idx = NoValue) =>
        /\ s7o_pc = "constructed"
        /\ initial_power_calcs = EmptyDict
        /\ no_possible_excitated_modes = NoValue

(***************************************************************************)
(* FatigueOutputFile (fatigue_output_file_reader.py)                       *)
(***************************************************************************)
MaxFatLines == 4

PLOT_FORMAT == <<"Results", SP, "in", SP, "Plot", SP, "Format">>

\* Lines of a fatigue output file: the marker, two rows of nine numbers, a row of
\* nine words of which the last is no number, a row of two numbers
FatLines == {
    <<SP>> \o PLOT_FORMAT \o <<NL>>,
    <<"1", SP, "2", SP, "5", SP, "0", SP, "1", SP, "2", SP, "1", SP, "5", SP, "2", NL>>,
    <<"2", SP, "1", SP, "0", SP, "5", ".", "0", SP, "2", SP, "1", SP, "0", SP, "2", SP,
      "1", NL>>,
    <<"1", SP, "2", SP, "5", SP, "0", SP, "1", SP, "2", SP, "1", SP, "5", SP, "x", NL>>,
    <<"1", SP, "2", NL>>}

\* __init__ up to the loop of parse_output_file
FatInit ==
    /\ fat_data \in SeqsUpTo(FatLines, MaxFatLines)
    /\ fat_pc = "parse_output_file"
    /\ fat_idx = 0
    /\ fat_section = NoValue
    /\ fatigue_lives = EmptyList
    /\ OthersIdle("fat")

\* if 'Results in Plot Format' in line: section = 'fatigue lives'
SectionAfter_Left(line, sec) ==
    IF ContainsText(line, PLOT_FORMAT) THEN Some("fatigue lives")
    ELSE IF Len(Words(Without(line, NL))) # 9 THEN NoValue
    ELSE sec

SectionAfter(line, sec) ==
    IF ContainsText(line, PLOT_FORMAT) THEN Some("fatigue lives") ELSE sec

\* [int(line[0]), int(line[1]), float(line[2]), float(line[3]), int(line[4]),
\*  float(line[5]), int(line[6]), float(line[7]), int(line[8])]
FatigueRow(words) ==
    LET conv == [k \in 1..9 |-> IF k \in {1, 2, 5, 7, 9} THEN PyInt(words[k])
                                ELSE PyFloat(words[k])]
    IN IF \E k \in 1..9 : conv[k].err # "none" THEN Raise("ValueError")
       ELSE Ok([k \in 1..9 |-> conv[k].val])

\* one turn of for idx, line in enumerate(self.data)
FatLine ==
    /\ fat_pc = "parse_output_file"
    /\ fat_idx < Len(fat_data)
    /\ LET line == fat_data[fat_idx + 1]
           words == Words(Without(line, NL))
       IN /\ fat_section' = SectionAfter(line, fat_section)
          /\ IF fat_section' = Some("fatigue lives") /\ Len(words) = 9
             THEN IF FatigueRow(words).err # "none"
                  THEN /\ fat_pc' = FatigueRow(words).err
                       /\ UNCHANGED <<fat_idx, fatigue_lives>>
                  ELSE /\ fatigue_lives' = Append(fatigue_lives, FatigueRow(words).val)
                       /\ fat_idx' = fat_idx + 1
                       /\ UNCHANGED fat_pc
             ELSE /\ fat_idx' = fat_idx + 1
                  /\ UNCHANGED <<fat_pc, fatigue_lives>>
    /\ UNCHANGED fat_data
    /\ OthersUnchanged("fat")

\* the loop ends: the object is constructed
FatDone ==
    /\ fat_pc = "parse_output_file"
    /\ fat_idx >= Len(fat_data)
    /\ fat_pc' = "constructed"
    /\ UNCHANGED <<fat_data, fat_idx, fat_section, fatigue_lives>>
    /\ OthersUnchanged("fat")

FatNext ==
    \/ FatLine
    \/ FatDone

SpecFat == FatInit /\ [][FatNext]_vars

\* does line j hold the marker
IsPlotFormat(j) == ContainsText(fat_data[j], PLOT_FORMAT)

\* the rows of the lines among the first n that split into nine words and stand
\* at or after the first marker line
RECURSIVE LivesOf(_)
LivesOf(n) ==
    IF n = 0 THEN <<>>
    ELSE IF (\E j \in 1..n : IsPlotFormat(j))
            /\ Len(Words(Without(fat_data[n], NL))) = 9
    THEN Append(LivesOf(n - 1), FatigueRow(Words(Without(fat_data[n], NL))).val)
    ELSE LivesOf(n - 1)

\* C30: while parse_output_file runs and after it, fatigue_lives holds one entry
\* for every line handled so far that splits into nine words and stands at or
\* after the first line with 'Results in Plot Format', in the order of the file,
\* and nothing else; and the section is entered exactly when such a marker line
\* was handled, and is not left
C30_LivesAfterMarker ==
    /\ fatigue_lives = LivesOf(fat_idx)
    /\ fat_section = Some("fatigue lives") <=>
          \E j \in 1..Len(fat_data) :
              /\ IsPlotFormat(j)
              /\ j <= fat_idx + (IF fat_pc = "ValueError" THEN 1 ELSE 0)

\* a file with a nine-word line before the marker and two after it was parsed
\* to the end
C30_Witness ==
    /\ fat_pc = "constructed"
    /\ Len(fat_data) = 4
    /\ Len(Words(Without(fat_data[1], NL))) = 9
    /\ IsPlotFormat(2)
    /\ Len(fatigue_lives) = 2

====
